---- MODULE Spec2Model ----
(***************************************************************************)
(* A model of mudpy's Telnet portal (src/mudpy/portal/telnet.py): the      *)
(* frame codec (parse_telnet and the message encoders), the option         *)
(* negotiation state machine (TelnetOption and its subclasses) and the     *)
(* per-connection reader, writer and negotiation tasks of                  *)
(* TelnetConnection.                                                       *)
(*                                                                         *)
(* Bytes are the integers 0..255.  Python's zero-based data[i] is the      *)
(* one-based data[i + 1] of a TLA+ sequence.                               *)
(***************************************************************************)
EXTENDS Integers, Sequences, FiniteSets, TLC

(***************************************************************************)
(* TelnetCode                                                              *)
(***************************************************************************)
NULL == 0
SGA == 3
LF == 10
CR == 13
MTTS == 24
NAWS == 31
MSSP == 70
MCCP2 == 86
MCCP3 == 87
GMCP == 201
SE == 240
NOP == 241
SB == 250
WILL == 251
WONT == 252
DO == 253
DONT == 254
IAC == 255

(***************************************************************************)
(* Bounds of the model.                                                    *)
(***************************************************************************)
\* longest raw byte sequence handed to the decoder
MaxLen == 5
\* longest sequence of messages that is encoded and decoded again
MaxMsgs == 2
\* longest payload of a single subnegotiation frame built by the peer
MaxPayload == 4
\* longest Data payload and longest subnegotiation payload in a stream of messages
MaxData == 2
MaxStreamPayload == 1
\* number of chunks the reader task receives in one run
MaxRecv == 2
\* number of calls of the outward API in one run
MaxSend == 1
\* longest run of tokens the peer sends before, in and after a deflate stream
MaxRun == 1
\* longest sequence of tokens of application data the peer sends
MaxTokens == 3

(***************************************************************************)
(* Sequence helpers.                                                       *)
(***************************************************************************)
\* Python's data[a:b] (zero-based, b exclusive), for 0 <= a.
Slice(s, a, b) ==
  IF b <= a THEN << >> ELSE SubSeq(s, a + 1, IF b > Len(s) THEN Len(s) ELSE b)

\* Python's data[a:].
DropFirst(s, a) == Slice(s, a, Len(s))

SeqsUpTo(S, n) == UNION {[1..k -> S] : k \in 0..n}

RECURSIVE Concat(_)
Concat(ss) == IF ss = << >> THEN << >> ELSE Head(ss) \o Concat(Tail(ss))

(***************************************************************************)
(* The four Telnet messages, and None.  One record shape for all of them,  *)
(* the fields a class does not have are left at their defaults.            *)
(***************************************************************************)
NoMessage == [type |-> "None", command |-> 0, option |-> 0, data |-> << >>]
TelnetData(data) ==
  [type |-> "Data", command |-> 0, option |-> 0, data |-> data]
TelnetCommand(command) ==
  [type |-> "Command", command |-> command, option |-> 0, data |-> << >>]
TelnetNegotiate(command, option) ==
  [type |-> "Negotiate", command |-> command, option |-> option, data |-> << >>]
TelnetSubNegotiate(option, data) ==
  [type |-> "SubNegotiate", command |-> 0, option |-> option, data |-> data]

\* A plain bytes object, as send_text puts on the outbound queue.
RawBytes(data) ==
  [type |-> "bytes", command |-> 0, option |-> 0, data |-> data]

(***************************************************************************)
(* __bytes__ of the message classes: what the writer puts on the wire.     *)
(* bytes(b) of a bytes object is b.                                        *)
(***************************************************************************)
Bytes(msg) ==
  CASE msg.type = "Data" -> msg.data
    [] msg.type = "bytes" -> msg.data
    [] msg.type = "Command" -> <<IAC, msg.command>>
    [] msg.type = "Negotiate" -> <<IAC, msg.command, msg.option>>
    [] msg.type = "SubNegotiate" -> <<IAC, SB, msg.option>> \o msg.data \o <<IAC, SE>>
    [] OTHER -> << >>

(***************************************************************************)
(* scan_until_IAC: the zero-based index of the first IAC, or len(data).    *)
(***************************************************************************)
RECURSIVE scan_from(_, _)
scan_from(data, i) ==
  IF i >= Len(data) THEN Len(data)
  ELSE IF data[i + 1] = IAC THEN i
  ELSE scan_from(data, i + 1)

scan_until_IAC(data) == scan_from(data, 0)

(***************************************************************************)
(* scan_until_IAC_SE: the length up to and including the first IAC SE that *)
(* is not hidden by an IAC IAC pair, or -1.  The scan starts at index 0.   *)
(***************************************************************************)
RECURSIVE scan_se_from(_, _)
scan_se_from(data, i) ==
  IF ~(i < Len(data) - 1) THEN -1
  ELSE IF data[i + 1] = IAC /\ data[i + 2] = SE THEN i + 2
  ELSE IF data[i + 1] = IAC /\ data[i + 2] = IAC THEN scan_se_from(data, i + 2)
  ELSE scan_se_from(data, i + 1)

scan_until_IAC_SE(data) == scan_se_from(data, 0)

(***************************************************************************)
(* parse_telnet: (bytes to advance by, message or None).                   *)
(***************************************************************************)
Parsed(advance, msg) == [advance |-> advance, msg |-> msg]

\* the SB branch as it would be with "return length, None" for a frame
\* that is not complete
parse_subnegotiate_advancing(data) ==
  LET length == scan_until_IAC_SE(data)
  IN  IF length < 5 THEN Parsed(length, NoMessage)
      ELSE Parsed(length, TelnetSubNegotiate(data[3], Slice(data, 3, length - 2)))

parse_subnegotiate(data) ==
  LET length == scan_until_IAC_SE(data)
  IN  IF length < 5 THEN Parsed(0, NoMessage)
      ELSE Parsed(length, TelnetSubNegotiate(data[3], Slice(data, 3, length - 2)))

parse_telnet(data) ==
  IF Len(data) < 1 THEN Parsed(0, NoMessage)
  ELSE IF data[1] = IAC THEN
    IF Len(data) < 2 THEN Parsed(0, NoMessage)
    ELSE IF data[2] = IAC THEN Parsed(2, TelnetData(Slice(data, 0, 1)))
    ELSE IF data[2] \in {WILL, WONT, DO, DONT} THEN
      IF Len(data) < 3 THEN Parsed(0, NoMessage)
      ELSE Parsed(3, TelnetNegotiate(data[2], data[3]))
    ELSE IF data[2] = SB THEN parse_subnegotiate(data)
    ELSE Parsed(2, TelnetCommand(data[2]))
  ELSE LET length == scan_until_IAC(data)
       IN  Parsed(length, TelnetData(Slice(data, 0, length)))

(***************************************************************************)
(* zlib, reduced to what the connection observes of it.  A deflate stream  *)
(* is a sequence of code words: ZBase + b stands for the plain byte b, and *)
(* ZEnd ends the stream.  A plain byte met by inflate is invalid data.     *)
(*   "open": a fresh or running stream      "eof": the stream has ended    *)
(*   "bad":  a stream that met invalid data (zlib keeps failing on it)     *)
(***************************************************************************)
ZBase == IAC + 1
ZEnd == ZBase + ZBase

\* compressobj.compress(data) + flush(Z_SYNC_FLUSH)
Deflate(data) == [i \in 1..Len(data) |-> ZBase + data[i]]

Inflated(out, state, unused, error) ==
  [out |-> out, state |-> state, unused |-> unused, error |-> error]

RECURSIVE inflate_from(_, _, _)
inflate_from(data, i, out) ==
  IF i > Len(data) THEN Inflated(out, "open", FALSE, FALSE)
  ELSE IF data[i] = ZEnd THEN Inflated(out, "eof", i < Len(data), FALSE)
  ELSE IF data[i] < ZBase \/ data[i] > ZEnd THEN Inflated(<< >>, "bad", FALSE, TRUE)
  ELSE inflate_from(data, i + 1, Append(out, data[i] - ZBase))

\* decompressobj.decompress(data): the output, the stream's next state, whether
\* unused_data is non-empty afterwards, and whether zlib.error was raised.
Decompress(state, data) ==
  CASE state = "open" -> inflate_from(data, 1, << >>)
    [] state = "eof" -> Inflated(<< >>, "eof", data # << >>, FALSE)
    [] OTHER -> Inflated(<< >>, "bad", FALSE, data # << >>)

(***************************************************************************)
(* The option classes: TelnetConnection.supported_options, in order, and   *)
(* the class attributes of each.  SGA, LINEMODE and EOR are commented out  *)
(* of the list, so SGA stands for an option code that is not registered.   *)
(***************************************************************************)
supported_options == <<NAWS, MTTS, MSSP, MCCP2, MCCP3, GMCP>>
Registered == {supported_options[i] : i \in 1..Len(supported_options)}

support_local(code) == code \in {MSSP, MCCP2, MCCP3, GMCP}
support_remote(code) == code \in {NAWS, MTTS}
start_local(code) == code \in {MSSP, MCCP2, MCCP3, GMCP}
start_remote(code) == code \in {NAWS, MTTS}

TelnetOptionState == [enabled |-> FALSE, negotiating |-> FALSE]
TelnetOptionPerspective == [local |-> TelnetOptionState, remote |-> TelnetOptionState]

(***************************************************************************)
(* ColorType of rich.color, an IntEnum.                                    *)
(***************************************************************************)
STANDARD == 1
EIGHT_BIT == 2
TRUECOLOR == 3

Max(a, b) == IF a >= b THEN a ELSE b

(***************************************************************************)
(* The handlers below are operators on a record c of the connection's      *)
(* mutable state (the fields are the variables declared further down) plus *)
(*   c.calls   the option callbacks invoked so far, in order               *)
(*   c.raised  an exception is propagating (the reader logs it)            *)
(*   c.log     one record per message dispatched by the running ingest     *)
(***************************************************************************)

\* asyncio.Queue.put on the unbounded _tn_out_queue: never suspends.
Put(c, msg) == [c EXCEPT !.tn_out_queue = Append(@, msg)]

Called(c, name) == [c EXCEPT !.calls = Append(@, name)]

\* asyncio.Event.set on the option's negotiation event
SetNegotiation(c, code) == [c EXCEPT !.negotiation[code] = TRUE]

\* BaseConnection.change_capabilities(delta): merge delta into the record.
change_capabilities(c, delta) ==
  [c EXCEPT !.capabilities =
     [k \in DOMAIN @ |-> IF k \in DOMAIN delta THEN delta[k] ELSE @[k]]]

send_subnegotiate(c, code, data) == Put(c, TelnetSubNegotiate(code, data))

send_negotiate(c, code, command) == Put(c, TelnetNegotiate(command, code))

(***************************************************************************)
(* TelnetOption.start                                                      *)
(***************************************************************************)
\* start() as it would be if it marked the half enabled when it sends the request
start_enabling(c, code) ==
  LET c1 == IF start_local(code)
            THEN [send_negotiate(c, code, WILL)
                    EXCEPT !.status[code].local.enabled = TRUE]
            ELSE c
  IN  IF start_remote(code)
      THEN [send_negotiate(c1, code, DO)
              EXCEPT !.status[code].remote.enabled = TRUE]
      ELSE c1

start(c, code) ==
  LET c1 == IF start_local(code)
            THEN [send_negotiate(c, code, WILL)
                    EXCEPT !.status[code].local.negotiating = TRUE]
            ELSE c
  IN  IF start_remote(code)
      THEN [send_negotiate(c1, code, DO)
              EXCEPT !.status[code].remote.negotiating = TRUE]
      ELSE c1

(***************************************************************************)
(* MTTSOption.request                                                      *)
(***************************************************************************)
request(c) ==
  send_subnegotiate([c EXCEPT !.number_requests = @ + 1], MTTS, <<1>>)

(***************************************************************************)
(* The state-transition callbacks, with the overrides of the subclasses.   *)
(***************************************************************************)
at_local_enable(c0, code) ==
  LET c == Called(c0, "at_local_enable")
  IN  CASE code = MSSP ->
             change_capabilities(SetNegotiation(c, code), [mssp |-> TRUE])
        [] code = MCCP2 ->
             send_subnegotiate(
               SetNegotiation(change_capabilities(c, [mccp2 |-> TRUE]), code),
               code, << >>)
        [] code = MCCP3 ->
             SetNegotiation(change_capabilities(c, [mccp3 |-> TRUE]), code)
        [] OTHER -> SetNegotiation(c, code)

at_remote_enable(c0, code) ==
  LET c == Called(c0, "at_remote_enable")
  IN  CASE code = NAWS ->
             SetNegotiation(change_capabilities(c, [naws |-> TRUE]), code)
        [] code = MTTS ->
             request(change_capabilities(c, [mtts |-> TRUE]))
        [] OTHER -> SetNegotiation(c, code)

at_local_disable(c, code) == Called(c, "at_local_disable")

\* the callback as it would be if it took the option's capability back
at_remote_disable_clearing(c, code) ==
  change_capabilities(Called(c, "at_remote_disable"),
    CASE code = NAWS -> [naws |-> FALSE]
      [] code = MTTS -> [mtts |-> FALSE]
      [] OTHER -> [k \in {} |-> TRUE])

at_remote_disable(c, code) == Called(c, "at_remote_disable")

at_local_reject(c, code) == SetNegotiation(Called(c, "at_local_reject"), code)

at_remote_reject(c, code) == SetNegotiation(Called(c, "at_remote_reject"), code)

(***************************************************************************)
(* TelnetOption.at_receive_negotiate                                       *)
(***************************************************************************)
receive_will(c, code) ==
  IF support_remote(code) THEN
    IF ~c.status[code].remote.enabled THEN
      LET c1 == [c EXCEPT !.status[code].remote.enabled = TRUE]
          c2 == IF ~c1.status[code].remote.negotiating
                THEN send_negotiate(c1, code, DO) ELSE c1
      IN  at_remote_enable(c2, code)
    ELSE c
  ELSE send_negotiate(c, code, DONT)

\* the DO branch as it would be if it answered WILL whether or not a WILL is
\* already in flight
receive_do_always_replying(c, code) ==
  IF support_local(code) THEN
    IF ~c.status[code].local.enabled THEN
      at_local_enable(
        send_negotiate([c EXCEPT !.status[code].local.enabled = TRUE], code, WILL),
        code)
    ELSE c
  ELSE send_negotiate(c, code, DONT)

\* the DO branch as it would be if at_local_enable stood outside
\* "if not state.enabled"
receive_do_recalling(c, code) ==
  IF support_local(code) THEN
    LET c1 == [c EXCEPT !.status[code].local.enabled = TRUE]
        c2 == IF ~c.status[code].local.enabled /\ ~c.status[code].local.negotiating
              THEN send_negotiate(c1, code, WILL) ELSE c1
    IN  at_local_enable(c2, code)
  ELSE send_negotiate(c, code, DONT)

receive_do(c, code) ==
  IF support_local(code) THEN
    IF ~c.status[code].local.enabled THEN
      LET c1 == [c EXCEPT !.status[code].local.enabled = TRUE]
          c2 == IF ~c1.status[code].local.negotiating
                THEN send_negotiate(c1, code, WILL) ELSE c1
      IN  at_local_enable(c2, code)
    ELSE c
  ELSE send_negotiate(c, code, DONT)

\* the WONT branch as it would be if it acknowledged the refusal with DONT
receive_wont_answering(c, code) ==
  IF support_remote(code) THEN
    LET c1 == IF c.status[code].remote.enabled
              THEN at_remote_disable(
                     [c EXCEPT !.status[code].remote.enabled = FALSE], code)
              ELSE c
        c2 == IF c1.status[code].remote.negotiating
              THEN at_remote_reject(
                     [c1 EXCEPT !.status[code].remote.negotiating = FALSE], code)
              ELSE c1
    IN  send_negotiate(c2, code, DONT)
  ELSE c

receive_wont(c, code) ==
  IF support_remote(code) THEN
    LET c1 == IF c.status[code].remote.enabled
              THEN at_remote_disable(
                     [c EXCEPT !.status[code].remote.enabled = FALSE], code)
              ELSE c
    IN  IF c1.status[code].remote.negotiating
        THEN at_remote_reject(
               [c1 EXCEPT !.status[code].remote.negotiating = FALSE], code)
        ELSE c1
  ELSE c

\* the DONT branch as it would be with "elif state.negotiating"
receive_dont_elif(c, code) ==
  IF support_local(code) THEN
    IF c.status[code].local.enabled
    THEN at_local_disable([c EXCEPT !.status[code].local.enabled = FALSE], code)
    ELSE IF c.status[code].local.negotiating
    THEN at_local_reject([c EXCEPT !.status[code].local.negotiating = FALSE], code)
    ELSE c
  ELSE c

receive_dont(c, code) ==
  IF support_local(code) THEN
    LET c1 == IF c.status[code].local.enabled
              THEN at_local_disable(
                     [c EXCEPT !.status[code].local.enabled = FALSE], code)
              ELSE c
    IN  IF c1.status[code].local.negotiating
        THEN at_local_reject(
               [c1 EXCEPT !.status[code].local.negotiating = FALSE], code)
        ELSE c1
  ELSE c

at_receive_negotiate(c, msg) ==
  CASE msg.command = WILL -> receive_will(c, msg.option)
    [] msg.command = DO -> receive_do(c, msg.option)
    [] msg.command = WONT -> receive_wont(c, msg.option)
    [] msg.command = DONT -> receive_dont(c, msg.option)
    [] OTHER -> c

(***************************************************************************)
(* TelnetConnection._tn_handle_negotiate                                   *)
(***************************************************************************)
\* the fallback as it would be with the two refusals swapped
tn_handle_negotiate_swapped(c, msg) ==
  IF msg.option \in Registered THEN at_receive_negotiate(c, msg)
  ELSE CASE msg.command = WILL -> Put(c, TelnetNegotiate(WONT, msg.option))
         [] msg.command = DO -> Put(c, TelnetNegotiate(DONT, msg.option))
         [] OTHER -> c

tn_handle_negotiate(c, msg) ==
  IF msg.option \in Registered THEN at_receive_negotiate(c, msg)
  ELSE CASE msg.command = WILL -> Put(c, TelnetNegotiate(DONT, msg.option))
         [] msg.command = DO -> Put(c, TelnetNegotiate(WONT, msg.option))
         [] OTHER -> c

(***************************************************************************)
(* Strings are sequences of bytes.  The payloads the model's peer sends    *)
(* are ASCII or hold bytes that are invalid in UTF-8 wherever they stand   *)
(* (no byte of 0x80..0xBF is among them), so bytes.decode() either returns *)
(* the same bytes or raises, and decode(errors="ignore") drops the bytes   *)
(* above 0x7F.                                                             *)
(***************************************************************************)
\* the first zero-based index of byte b in s, or -1 (bytes.find, str.find)
RECURSIVE find_from(_, _, _)
find_from(s, b, i) ==
  IF i >= Len(s) THEN -1
  ELSE IF s[i + 1] = b THEN i
  ELSE find_from(s, b, i + 1)

find(s, b) == find_from(s, b, 0)

upper(s) ==
  [i \in 1..Len(s) |-> IF s[i] \in 97..122 THEN s[i] - 32 ELSE s[i]]

startswith(s, prefix) ==
  Len(s) >= Len(prefix) /\ SubSeq(s, 1, Len(prefix)) = prefix

endswith(s, suffix) ==
  Len(s) >= Len(suffix) /\ SubSeq(s, Len(s) - Len(suffix) + 1, Len(s)) = suffix

IsAscii(s) == \A i \in 1..Len(s) : s[i] < 128

\* bytes.decode("utf-8", errors="ignore")
decode_ignore(s) == SelectSeq(s, LAMBDA b : b < 128)

IsDigits(s) == s # << >> /\ \A i \in 1..Len(s) : s[i] \in 48..57

\* int(s) of a string of decimal digits
RECURSIVE int(_)
int(s) ==
  IF s = << >> THEN 0 ELSE 10 * int(SubSeq(s, 1, Len(s) - 1)) + (s[Len(s)] - 48)

\* number & bitval > 0, for bitval a power of two
BitSet(number, bitval) == (number \div bitval) % 2 = 1

SPACE == 32
DASH == 45
STR_MTTS_ == <<77, 84, 84, 83, 32>>
STR_VT100 == <<86, 84, 49, 48, 48>>
STR_XTERM == <<88, 84, 69, 82, 77>>
STR_256COLOR == <<45, 50, 53, 54, 67, 79, 76, 79, 82>>
STR_COLOR == <<45, 67, 79, 76, 79, 82>>
STR_IDLE == <<73, 68, 76, 69>>
STR_UTF8 == <<117, 116, 102, 45, 56>>
EIGHT_BIT_CLIENTS ==
  {
   <<65, 84, 76, 65, 78, 84, 73, 83>>, \* ATLANTIS
   <<67, 77, 85, 68>>, \* CMUD
   <<75, 73, 76, 68, 67, 76, 73, 69, 78, 84>>, \* KILDCLIENT
   <<77, 85, 68, 76, 69, 84>>, \* MUDLET
   <<77, 85, 83, 72, 67, 76, 73, 69, 78, 84>>, \* MUSHCLIENT
   <<80, 85, 84, 84, 89>>, \* PUTTY
   <<66, 69, 73, 80>>, \* BEIP
   <<80, 79, 84, 65, 84, 79>>, \* POTATO
   <<84, 73, 78, 89, 70, 85, 71, 85, 69>> \* TINYFUGUE
  }

NoDelta == [k \in {} |-> TRUE]
Only(cond, delta) == IF cond THEN delta ELSE NoDelta

(***************************************************************************)
(* NAWSOption.at_receive_subnegotiate                                      *)
(***************************************************************************)
\* the handler as it would be if it read the two numbers low byte first
naws_receive_subnegotiate_little(c, msg) ==
  LET data == msg.data
  IN  IF Len(data) # 4 THEN c
      ELSE change_capabilities(c, [width |-> data[2] * 256 + data[1],
                                   height |-> data[4] * 256 + data[3]])

naws_receive_subnegotiate(c, msg) ==
  LET data == msg.data
  IN  IF Len(data) # 4 THEN c
      ELSE change_capabilities(c, [width |-> data[1] * 256 + data[2],
                                   height |-> data[3] * 256 + data[4]])

(***************************************************************************)
(* MTTSOption.handle_name, handle_ttype, handle_standard                   *)
(***************************************************************************)
handle_name(c, data) ==
  LET sp == find(data, SPACE)
      client_name == IF sp >= 0 THEN Slice(data, 0, sp) ELSE data
      client_version == IF sp >= 0 THEN DropFirst(data, sp + 1) ELSE << >>
      max_color == IF upper(client_name) \in EIGHT_BIT_CLIENTS
                   THEN Max(STANDARD, EIGHT_BIT) ELSE STANDARD
  IN  change_capabilities(c,
        [client_name |-> client_name]
        @@ Only(client_version # << >>, [client_version |-> client_version])
        @@ Only(max_color # c.capabilities.color, [color |-> max_color]))

handle_ttype(c, data) ==
  LET dash == find(data, DASH)
      first == IF dash >= 0 THEN Slice(data, 0, dash) ELSE data
      color0 == c.capabilities.color
      color1 == IF color0 < EIGHT_BIT
                   /\ (endswith(first, STR_256COLOR)
                       \/ (endswith(first, STR_XTERM) /\ ~endswith(first, STR_COLOR)))
                THEN EIGHT_BIT ELSE color0
      max_color == IF upper(first) = STR_XTERM THEN Max(color1, EIGHT_BIT) ELSE color1
  IN  \* "max_color != self.protocol.capabilities" compares an enum with the
      \* record and is always true: color is always written.
      change_capabilities(c,
        Only(upper(first) = STR_VT100, [vt100 |-> TRUE]) @@ [color |-> max_color])

handle_standard(c, data) ==
  IF ~startswith(data, STR_MTTS_) THEN c
  ELSE LET num == DropFirst(data, find(data, SPACE) + 1)
       IN  IF ~IsDigits(num) THEN c
           ELSE LET number == int(num)
                    color0 == c.capabilities.color
                    color1 == IF BitSet(number, 256) THEN Max(TRUECOLOR, color0) ELSE color0
                    color2 == IF BitSet(number, 8) THEN Max(EIGHT_BIT, color1) ELSE color1
                    max_color == IF BitSet(number, 1) THEN Max(STANDARD, color2) ELSE color2
                IN  change_capabilities(c,
                      Only(BitSet(number, 2048), [encryption |-> TRUE])
                      @@ Only(BitSet(number, 1024), [mslp |-> TRUE])
                      @@ Only(BitSet(number, 512), [mnes |-> TRUE])
                      @@ Only(BitSet(number, 128), [proxy |-> TRUE])
                      @@ Only(BitSet(number, 64), [screenreader |-> TRUE])
                      @@ Only(BitSet(number, 32), [osc_color_palette |-> TRUE])
                      @@ Only(BitSet(number, 16), [mouse_tracking |-> TRUE])
                      @@ Only(BitSet(number, 4), [encoding |-> STR_UTF8])
                      @@ Only(BitSet(number, 2), [vt100 |-> TRUE])
                      @@ Only(max_color # color0, [color |-> max_color]))

(***************************************************************************)
(* MTTSOption.at_receive_subnegotiate.  last_received is set to "" by      *)
(* __init__ and assigned nowhere else.                                     *)
(***************************************************************************)
last_received == << >>

\* the handler as it would be if the reply to request 3 were followed by
\* another request
mtts_receive_subnegotiate_rerequesting(c, msg) ==
  LET data == msg.data
      payload == DropFirst(data, 1)
  IN  IF Len(data) = 0 THEN c
      ELSE IF data[1] # 0 THEN c
      ELSE IF ~IsAscii(payload) THEN [c EXCEPT !.raised = TRUE]
      ELSE IF payload = last_received THEN SetNegotiation(c, MTTS)
      ELSE CASE c.number_requests = 1 -> request(handle_name(c, payload))
             [] c.number_requests = 2 -> request(handle_ttype(c, payload))
             [] c.number_requests = 3 ->
                  request(SetNegotiation(handle_standard(c, payload), MTTS))
             [] OTHER -> c

mtts_receive_subnegotiate(c, msg) ==
  LET data == msg.data
      payload == DropFirst(data, 1)
  IN  IF Len(data) = 0 THEN c
      ELSE IF data[1] # 0 THEN c
      ELSE IF ~IsAscii(payload) THEN [c EXCEPT !.raised = TRUE]
      ELSE IF payload = last_received THEN SetNegotiation(c, MTTS)
      ELSE CASE c.number_requests = 1 -> request(handle_name(c, payload))
             [] c.number_requests = 2 -> request(handle_ttype(c, payload))
             [] c.number_requests = 3 ->
                  SetNegotiation(handle_standard(c, payload), MTTS)
             [] OTHER -> c

(***************************************************************************)
(* MCCP3Option.at_receive_subnegotiate, at_decompress_end                  *)
(***************************************************************************)
\* the handler as it would be without the decompression of the bytes already
\* in the read buffer
mccp3_receive_subnegotiate_lazy(c, msg) ==
  IF c.capabilities.mccp3_enabled THEN c
  ELSE [change_capabilities(c, [mccp3_enabled |-> TRUE])
          EXCEPT !.tn_decompress_in = "open"]

mccp3_receive_subnegotiate(c, msg) ==
  IF c.capabilities.mccp3_enabled THEN c
  ELSE LET c1 == change_capabilities(c, [mccp3_enabled |-> TRUE])
           r == Decompress("open", c1.tn_read_buffer)
       IN  [c1 EXCEPT !.tn_decompress_in = r.state,
                      !.tn_read_buffer = IF r.error THEN @ ELSE r.out]

at_decompress_end(c) ==
  change_capabilities([c EXCEPT !.tn_decompress_in = "None"],
                      [mccp3_enabled |-> FALSE])

(***************************************************************************)
(* TelnetConnection._tn_handle_subnegotiate                                *)
(***************************************************************************)
tn_handle_subnegotiate(c, msg) ==
  CASE msg.option = NAWS -> naws_receive_subnegotiate(c, msg)
    [] msg.option = MTTS -> mtts_receive_subnegotiate(c, msg)
    [] msg.option = MCCP3 -> mccp3_receive_subnegotiate(c, msg)
    [] OTHER -> c

(***************************************************************************)
(* TelnetConnection._tn_handle_data: the line assembler.                   *)
(***************************************************************************)
\* bytes.rstrip(b"\r\n")
RECURSIVE rstrip(_)
rstrip(s) ==
  IF s # << >> /\ s[Len(s)] \in {CR, LF} THEN rstrip(SubSeq(s, 1, Len(s) - 1)) ELSE s

RECURSIVE extract_lines(_)
extract_lines(c) ==
  LET newline_pos == find(c.tn_app_data, LF)
  IN  IF newline_pos = -1 THEN c
      ELSE LET line == decode_ignore(rstrip(Slice(c.tn_app_data, 0, newline_pos)))
           IN  extract_lines(
                 [c EXCEPT !.user_input_queue =
                             IF line # STR_IDLE THEN Append(@, line) ELSE @,
                           !.tn_app_data = DropFirst(@, newline_pos + 1)])

tn_handle_data(c, msg) ==
  extract_lines([c EXCEPT !.tn_app_data = @ \o msg.data])

(***************************************************************************)
(* TelnetConnection._tn_at_telnet_message.  Beside the dispatch, the       *)
(* model notes the last DO/DONT and WILL/WONT received for a registered    *)
(* option (c.recent) and appends to c.log what this dispatch did.          *)
(***************************************************************************)
Noted(c, msg) ==
  IF msg.type = "Negotiate" /\ msg.option \in Registered
  THEN CASE msg.command \in {DO, DONT} ->
              [c EXCEPT !.recent[msg.option].local = msg.command]
         [] msg.command \in {WILL, WONT} ->
              [c EXCEPT !.recent[msg.option].remote = msg.command]
         [] OTHER -> c
  ELSE c

Snapshot(c) ==
  [status |-> c.status, negotiation |-> c.negotiation,
   capabilities |-> c.capabilities, number_requests |-> c.number_requests]

tn_handle_message(c, msg) ==
  CASE msg.type = "Data" -> tn_handle_data(c, msg)
    [] msg.type = "Negotiate" -> tn_handle_negotiate(c, msg)
    [] msg.type = "SubNegotiate" -> tn_handle_subnegotiate(c, msg)
    [] OTHER -> c

tn_at_telnet_message(c, msg) ==
  LET c1 == tn_handle_message([Noted(c, msg) EXCEPT !.calls = << >>], msg)
  IN  [c1 EXCEPT !.log =
         Append(@, [msg |-> msg, pre |-> Snapshot(c), post |-> Snapshot(c1),
                    sent |-> DropFirst(c1.tn_out_queue, Len(c.tn_out_queue)),
                    calls |-> c1.calls])]

(***************************************************************************)
(* TelnetConnection._tn_at_receive_raw_data: inflate if MCCP3 is on,       *)
(* append to the read buffer, then parse and dispatch until the parser     *)
(* returns None.  An exception of a handler leaves the loop; the reader    *)
(* task logs it and goes on reading.                                       *)
(***************************************************************************)
RECURSIVE parse_loop(_)
parse_loop(c) ==
  LET r == parse_telnet(c.tn_read_buffer)
  IN  IF r.msg.type = "None" \/ c.raised THEN c
      ELSE parse_loop(
             tn_at_telnet_message(
               [c EXCEPT !.tn_read_buffer = DropFirst(@, r.advance)], r.msg))

inflate_chunk(c, data) ==
  LET r == Decompress(c.tn_decompress_in, data)
  IN  IF r.error THEN at_decompress_end([c EXCEPT !.tn_decompress_in = r.state])
      ELSE LET c1 == [c EXCEPT !.tn_decompress_in = r.state]
               c2 == IF r.unused THEN at_decompress_end(c1) ELSE c1
           IN  [c2 EXCEPT !.tn_read_buffer = @ \o r.out]

tn_at_receive_raw_data(c, data) ==
  parse_loop(
    IF c.capabilities.mccp3_enabled THEN inflate_chunk(c, data)
    ELSE [c EXCEPT !.tn_read_buffer = @ \o data])

(***************************************************************************)
(* TelnetConnection._tn_encode_outgoing_data and one turn of the loop of   *)
(* _tn_run_writer: encode, write, run the at_send hook of the option, and  *)
(* drain.  at_send_negotiate is a no-op for every option; only MCCP2       *)
(* overrides at_send_subnegotiate.  A falsy item (the empty byte string;   *)
(* the message classes define neither __bool__ nor __len__ and are always  *)
(* truthy) ends the "while data := ..." loop.                              *)
(***************************************************************************)
tn_encode_outgoing_data(mccp2_enabled, msg) ==
  IF mccp2_enabled THEN Deflate(Bytes(msg)) ELSE Bytes(msg)

mccp2_at_send_subnegotiate(w) ==
  IF ~w.capabilities.mccp2_enabled
  THEN [w EXCEPT !.capabilities.mccp2_enabled = TRUE, !.tn_compress_out = "open"]
  ELSE w

\* one turn as it would be with the at_send hook run before the item is encoded
writer_turn_hook_first(w, data) ==
  LET w0 == IF data.type = "SubNegotiate" /\ data.option = MCCP2
            THEN mccp2_at_send_subnegotiate(w) ELSE w
  IN  [w0 EXCEPT !.tn_writer =
                   @ \o tn_encode_outgoing_data(w0.capabilities.mccp2_enabled, data)]

writer_turn(w, data) ==
  LET w1 == [w EXCEPT !.tn_writer =
                        @ \o tn_encode_outgoing_data(w.capabilities.mccp2_enabled, data)]
  IN  IF data.type = "SubNegotiate" /\ data.option = MCCP2
      THEN mccp2_at_send_subnegotiate(w1)
      ELSE w1

(***************************************************************************)
(* ensure_crlf.  A str is a sequence of code points; chr(255) is the code  *)
(* point 255.                                                              *)
(***************************************************************************)
\* the function as it would be if it did not remember the CR it last saw
RECURSIVE ensure_crlf_forgetful(_)
ensure_crlf_forgetful(input_str) ==
  IF input_str = << >> THEN << >>
  ELSE LET ch == Head(input_str)
       IN  (CASE ch = CR -> <<CR>>
              [] ch = LF -> <<CR, LF>>
              [] ch = IAC -> <<ch, ch>>
              [] OTHER -> <<ch>>) \o ensure_crlf_forgetful(Tail(input_str))

RECURSIVE ensure_crlf_from(_, _, _, _)
ensure_crlf_from(input_str, i, prev_char_is_cr, result) ==
  IF i > Len(input_str) THEN result
  ELSE LET ch == input_str[i]
       IN  CASE ch = CR ->
                  ensure_crlf_from(input_str, i + 1, TRUE,
                    IF ~prev_char_is_cr THEN Append(result, CR) ELSE result)
             [] ch = LF ->
                  ensure_crlf_from(input_str, i + 1, FALSE,
                    (IF ~prev_char_is_cr THEN Append(result, CR) ELSE result)
                      \o <<LF>>)
             [] ch = IAC ->
                  ensure_crlf_from(input_str, i + 1, FALSE, result \o <<ch, ch>>)
             [] OTHER ->
                  ensure_crlf_from(input_str, i + 1, FALSE, Append(result, ch))

ensure_crlf(input_str) == ensure_crlf_from(input_str, 1, FALSE, << >>)

\* str.encode(): UTF-8, for code points below 0x800
RECURSIVE encode(_)
encode(str) ==
  IF str = << >> THEN << >>
  ELSE (IF Head(str) < 128 THEN <<Head(str)>>
        ELSE <<192 + (Head(str) \div 64), 128 + (Head(str) % 64)>>)
       \o encode(Tail(str))

(***************************************************************************)
(* The outward API: send_text, send_gmcp, send_mssp, with                  *)
(* GMCPOption.send_gmcp and MSSPOption.send_mssp.                          *)
(***************************************************************************)
send_text(c, text) == Put(c, RawBytes(encode(ensure_crlf(text))))

\* no data (None: a sequence no JSON text is equal to), or the JSON text
\* orjson.dumps returns for the data
NoData == <<-1>>

\* f" {orjson.dumps(data)}": orjson.dumps returns bytes, and the f-string
\* formats a bytes object as its repr, b'...'
gmcp_send_gmcp(c, command, data) ==
  send_subnegotiate(c, GMCP,
    encode(command)
    \o (IF data # NoData THEN encode(<<SPACE, 98, 39>> \o data \o <<39>>) ELSE << >>))

send_gmcp(c, command, data) ==
  IF c.capabilities.gmcp THEN gmcp_send_gmcp(c, command, data) ELSE c

\* data: the dict, as the sequence of its (key, value) items
RECURSIVE mssp_payload(_)
mssp_payload(data) ==
  IF data = << >> THEN << >>
  ELSE <<1>> \o encode(Head(data)[1]) \o <<2>> \o encode(Head(data)[2])
       \o mssp_payload(Tail(data))

mssp_send_mssp(c, data) ==
  IF data = << >> THEN c ELSE send_subnegotiate(c, MSSP, mssp_payload(data))

\* send_mssp as it would be without the test of capabilities.mssp
send_mssp_ungated(c, data) == mssp_send_mssp(c, data)

send_mssp(c, data) ==
  IF c.capabilities.mssp THEN mssp_send_mssp(c, data) ELSE c

(***************************************************************************)
(* The state of one TelnetConnection.                                      *)
(***************************************************************************)
VARIABLES
  status,            \* op.status of every registered option
  negotiation,       \* op.negotiation (asyncio.Event) of every registered option
  number_requests,   \* MTTSOption.number_requests
  capabilities,      \* BaseConnection.capabilities
  tn_read_buffer,    \* _tn_read_buffer
  tn_app_data,       \* _tn_app_data
  user_input_queue,  \* BaseConnection.user_input_queue: the lines pushed
  tn_out_queue,      \* _tn_out_queue
  tn_compress_out,   \* _tn_compress_out: "None" or "open"
  tn_decompress_in,  \* _tn_decompress_in: "None", "open", "eof" or "bad"
  tn_writer,         \* what has been written to the StreamWriter
  negotiation_pc,    \* _tn_run_negotiation: "start", "wait" or "linked"
  writer_pc,         \* _tn_run_writer: "run", "done", or "hook" while
                     \* suspended in MCCP2Option.at_send_subnegotiate
  reader_pc,         \* _tn_run_reader: "read", or "enabling" / "ending"
                     \* while suspended in a handler of MCCP3Option
  reader_local,      \* the local data of a suspended _tn_at_receive_raw_data
  recent,            \* the last DO/DONT and WILL/WONT received, per option
  dispatched,        \* what the last ingest dispatched, message by message
  nrecv,             \* chunks received so far
  nsend,             \* calls of the outward API so far
  app_call,          \* the last call of the outward API and what it enqueued
  \* a given input: of one decode loop of the codec on its own, or the bytes
  \* of the peer that the reader is fed from
  c_kind,            \* how the input was drawn: "raw", "stream", "encode",
                     \* "frame", "mccp3", "mccp3_end", "mccp3_bad", "lines",
                     \* "naws", "text" or "chunks"
  c_msgs,            \* the messages or tokens the input encodes
  c_input,           \* the input bytes
  c_buf,             \* the bytes not yet consumed (not yet sent by the peer)
  c_out,             \* the messages decoded so far ("text": the str returned)
  c_phase            \* "run", or "done" once the parser returned None

connVars ==
  <<status, negotiation, number_requests, capabilities, tn_read_buffer,
    tn_app_data, user_input_queue, tn_out_queue, tn_compress_out,
    tn_decompress_in, tn_writer, negotiation_pc, writer_pc, reader_pc,
    reader_local, recent, dispatched, nrecv, nsend, app_call>>

codecVars == <<c_kind, c_msgs, c_input, c_buf, c_out, c_phase>>

vars == <<connVars, codecVars>>

\* The fields the handlers work on, as a record.
Conn ==
  [status |-> status, negotiation |-> negotiation,
   number_requests |-> number_requests, capabilities |-> capabilities,
   tn_read_buffer |-> tn_read_buffer, tn_app_data |-> tn_app_data,
   user_input_queue |-> user_input_queue, tn_out_queue |-> tn_out_queue,
   tn_decompress_in |-> tn_decompress_in, recent |-> recent,
   calls |-> << >>, raised |-> FALSE, log |-> << >>]

Becomes(c) ==
  /\ status' = c.status
  /\ negotiation' = c.negotiation
  /\ number_requests' = c.number_requests
  /\ capabilities' = c.capabilities
  /\ tn_read_buffer' = c.tn_read_buffer
  /\ tn_app_data' = c.tn_app_data
  /\ user_input_queue' = c.user_input_queue
  /\ tn_out_queue' = c.tn_out_queue
  /\ tn_decompress_in' = c.tn_decompress_in
  /\ recent' = c.recent
  /\ dispatched' = c.log

(***************************************************************************)
(* TelnetConnection.__init__ (with TelnetOption.__init__ and               *)
(* MTTSOption.__init__ for every option of the registry).  encryption is   *)
(* server.tls; the model follows a connection of TelnetService, whose tls  *)
(* is False (TLSTelnetService differs in this one capability).             *)
(***************************************************************************)
\* no call of the outward API yet
NoCall == [name |-> "none", arg |-> << >>, capabilities |-> << >>, sent |-> << >>]

InitCapabilities(tls) ==
  [encryption |-> tls, color |-> 0, naws |-> FALSE, mtts |-> FALSE,
   mssp |-> FALSE, mccp2 |-> FALSE, mccp3 |-> FALSE, mccp2_enabled |-> FALSE,
   mccp3_enabled |-> FALSE, gmcp |-> FALSE, width |-> 0, height |-> 0,
   client_name |-> << >>, client_version |-> << >>, encoding |-> << >>,
   vt100 |-> FALSE, proxy |-> FALSE, screenreader |-> FALSE,
   mouse_tracking |-> FALSE, osc_color_palette |-> FALSE, mnes |-> FALSE,
   mslp |-> FALSE]

InitConn ==
  /\ status = [code \in Registered |-> TelnetOptionPerspective]
  /\ negotiation = [code \in Registered |-> FALSE]
  /\ number_requests = 0
  /\ capabilities = InitCapabilities(FALSE)
  /\ tn_read_buffer = << >>
  /\ tn_app_data = << >>
  /\ user_input_queue = << >>
  /\ tn_out_queue = << >>
  /\ tn_compress_out = "None"
  /\ tn_decompress_in = "None"
  /\ tn_writer = << >>
  /\ negotiation_pc = "start"
  /\ writer_pc = "run"
  /\ reader_pc = "read"
  /\ reader_local = << >>
  /\ recent = [code \in Registered |-> [local |-> 0, remote |-> 0]]
  /\ dispatched = << >>
  /\ nrecv = 0
  /\ nsend = 0
  /\ app_call = NoCall

(***************************************************************************)
(* What the peer may send in one chunk.                                    *)
(***************************************************************************)
Commands == {WILL, WONT, DO, DONT}

PeerNegotiations ==
  {Bytes(TelnetNegotiate(command, code)) :
     command \in Commands, code \in Registered \cup {SGA}}

PeerChunks ==
  PeerNegotiations
  \cup {Bytes(TelnetSubNegotiate(SGA, <<1>>)),  \* for an option not registered
        <<IAC, DO>>, <<MSSP>>}                  \* a frame cut by the chunk boundary

(***************************************************************************)
(* The reader task: one chunk read and ingested.                           *)
(***************************************************************************)
Receive ==
  /\ nrecv < MaxRecv
  /\ \E data \in PeerChunks : Becomes(tn_at_receive_raw_data(Conn, data))
  /\ nrecv' = nrecv + 1
  /\ UNCHANGED <<reader_pc, reader_local, tn_compress_out, tn_writer, negotiation_pc, writer_pc, nsend,
                 app_call, codecVars>>

(***************************************************************************)
(* The writer task: one item taken from the queue and written.             *)
(***************************************************************************)
Write ==
  /\ writer_pc = "run"
  /\ tn_out_queue # << >>
  /\ LET data == Head(tn_out_queue)
         w == writer_turn([capabilities |-> capabilities,
                           tn_compress_out |-> tn_compress_out,
                           tn_writer |-> tn_writer], data)
     IN  /\ tn_out_queue' = Tail(tn_out_queue)
         /\ IF data.type = "bytes" /\ data.data = << >>
            THEN /\ writer_pc' = "done"
                 /\ UNCHANGED <<capabilities, tn_compress_out, tn_writer>>
            ELSE /\ capabilities' = w.capabilities
                 /\ tn_compress_out' = w.tn_compress_out
                 /\ tn_writer' = w.tn_writer
                 /\ UNCHANGED writer_pc
  /\ UNCHANGED <<reader_pc, reader_local, status, negotiation, number_requests, tn_read_buffer,
                 tn_app_data, user_input_queue, tn_decompress_in,
                 negotiation_pc, recent, dispatched, nrecv, nsend, app_call,
                 codecVars>>

(***************************************************************************)
(* The negotiation task: start() on every option in registry order (no     *)
(* put on the unbounded queue suspends, so the loop runs in one piece),    *)
(* then the wait for the events or the timeout, then run_link.             *)
(***************************************************************************)
RECURSIVE start_all(_, _)
start_all(c, i) ==
  IF i > Len(supported_options) THEN c
  ELSE start_all(start(c, supported_options[i]), i + 1)

StartOptions ==
  /\ negotiation_pc = "start"
  /\ Becomes([start_all(Conn, 1) EXCEPT !.log = dispatched])
  /\ negotiation_pc' = "wait"
  /\ UNCHANGED <<reader_pc, reader_local, tn_compress_out, tn_writer, writer_pc, nrecv, nsend, app_call,
                 codecVars>>

\* the wait as it would be without the timeout: run_link only once every
\* option has settled
RunLinkWhenSettled ==
  /\ negotiation_pc = "wait"
  /\ \A code \in Registered : negotiation[code]
  /\ negotiation_pc' = "linked"
  /\ UNCHANGED <<reader_pc, reader_local, status, negotiation, number_requests, capabilities,
                 tn_read_buffer, tn_app_data, user_input_queue, tn_out_queue,
                 tn_compress_out, tn_decompress_in, tn_writer, writer_pc, recent,
                 dispatched, nrecv, nsend, app_call, codecVars>>

RunLink ==
  /\ negotiation_pc = "wait"
  /\ negotiation_pc' = "linked"
  /\ UNCHANGED <<reader_pc, reader_local, status, negotiation, number_requests, capabilities,
                 tn_read_buffer, tn_app_data, user_input_queue, tn_out_queue,
                 tn_compress_out, tn_decompress_in, tn_writer, writer_pc, recent,
                 dispatched, nrecv, nsend, app_call, codecVars>>

InitCodecIdle ==
  /\ c_kind = "raw"
  /\ c_msgs = << >>
  /\ c_input = << >>
  /\ c_buf = << >>
  /\ c_out = << >>
  /\ c_phase = "done"

Init == InitConn /\ InitCodecIdle

Next == Receive \/ Write \/ StartOptions \/ RunLink

Spec == Init /\ [][Next]_vars

(***************************************************************************)
(* The codec on its own.  The input of a run is drawn in one of four ways: *)
(*   "raw"    any byte sequence over CodecBytes                            *)
(*   "stream" the wire form of a sequence of well-formed messages, as a    *)
(*            Telnet peer sends them: IAC doubled in data and in payloads  *)
(*   "encode" bytes(TelnetData(b)), the connection's own encoding          *)
(*   "frame"  the wire form of one subnegotiation with payload p           *)
(* and the decode loop of _tn_at_receive_raw_data runs over it, one        *)
(* parse_telnet call per step.                                             *)
(***************************************************************************)
CodecBytes == {IAC, SB, SE, WILL, NAWS, 97}

\* IAC doubled, as the Telnet convention asks of whoever embeds it
RECURSIVE Escape(_)
Escape(b) ==
  IF b = << >> THEN << >>
  ELSE (IF Head(b) = IAC THEN <<IAC, IAC>> ELSE <<Head(b)>>) \o Escape(Tail(b))

\* The wire form of a message sent by a peer that follows the convention.
Wire(msg) ==
  CASE msg.type = "Data" -> Escape(msg.data)
    [] msg.type = "SubNegotiate" ->
         <<IAC, SB, msg.option>> \o Escape(msg.data) \o <<IAC, SE>>
    [] OTHER -> Bytes(msg)

RECURSIVE WireAll(_)
WireAll(msgs) == IF msgs = << >> THEN << >> ELSE Wire(Head(msgs)) \o WireAll(Tail(msgs))

DataRuns == SeqsUpTo({97, IAC}, MaxData) \ {<< >>}

StreamMessages ==
  {TelnetData(b) : b \in DataRuns}
  \cup {TelnetCommand(NOP)}
  \cup {TelnetNegotiate(command, code) : command \in {WILL, DONT}, code \in {NAWS, IAC}}
  \cup {TelnetSubNegotiate(code, p) :
          code \in {NAWS, IAC}, p \in SeqsUpTo({1, IAC}, MaxStreamPayload)}

FramePayloads == SeqsUpTo({0, 80, IAC}, MaxPayload)

InitCodec ==
  /\ \/ /\ c_kind = "raw"
        /\ c_msgs = << >>
        /\ c_input \in SeqsUpTo(CodecBytes, MaxLen)
     \/ /\ c_kind = "stream"
        /\ c_msgs \in SeqsUpTo(StreamMessages, MaxMsgs) \ {<< >>}
        /\ c_input = WireAll(c_msgs)
     \/ /\ c_kind = "encode"
        /\ \E b \in DataRuns : c_msgs = <<TelnetData(b)>>
        /\ c_input = Bytes(c_msgs[1])
     \/ /\ c_kind = "frame"
        /\ \E code \in {NAWS, MTTS}, p \in FramePayloads :
             c_msgs = <<TelnetSubNegotiate(code, p)>>
        /\ c_input = Wire(c_msgs[1])
  /\ c_buf = c_input
  /\ c_out = << >>
  /\ c_phase = "run"

\* "if message is not None: del self._tn_read_buffer[:length]" and the dispatch
DecodeStep ==
  /\ c_phase = "run"
  /\ LET r == parse_telnet(c_buf)
     IN  /\ r.msg.type # "None"
         /\ c_buf' = DropFirst(c_buf, r.advance)
         /\ c_out' = Append(c_out, r.msg)
  /\ UNCHANGED <<c_kind, c_msgs, c_input, c_phase, connVars>>

\* "else: break"
DecodeStop ==
  /\ c_phase = "run"
  /\ parse_telnet(c_buf).msg.type = "None"
  /\ c_phase' = "done"
  /\ UNCHANGED <<c_kind, c_msgs, c_input, c_buf, c_out, connVars>>

NextCodec == DecodeStep \/ DecodeStop

InitDecode == InitConn /\ InitCodec

SpecCodec == InitDecode /\ [][NextCodec]_vars

(***************************************************************************)
(* Properties of the codec, checked under SpecCodec.                       *)
(***************************************************************************)
\* Adjacent Data messages joined into one: the decoder cuts a run of data at
\* every IAC and joins two runs that follow each other.
RECURSIVE Coalesce(_)
Coalesce(msgs) ==
  IF Len(msgs) < 2 THEN msgs
  ELSE IF msgs[1].type = "Data" /\ msgs[2].type = "Data"
       THEN Coalesce(<<TelnetData(msgs[1].data \o msgs[2].data)>> \o Tail(Tail(msgs)))
       ELSE <<msgs[1]>> \o Coalesce(Tail(msgs))

\* A message as the decoder hands it on: the payload of a subnegotiation raw.
AsDecoded(msg) ==
  IF msg.type = "SubNegotiate" THEN TelnetSubNegotiate(msg.option, Escape(msg.data))
  ELSE msg

DecodedData(msgs) == Concat([i \in 1..Len(msgs) |-> msgs[i].data])

\* C7: decoding the wire form of any sequence of well-formed messages ends
\* with an empty buffer and has yielded the messages in order (runs of data
\* taken together).
C7_StreamDecodesCompletely ==
  (c_kind = "stream" /\ c_phase = "done") =>
    /\ c_buf = << >>
    /\ Coalesce(c_out) = Coalesce([i \in 1..Len(c_msgs) |-> AsDecoded(c_msgs[i])])

\* C8: bytes(TelnetData(b)) decoded to exhaustion gives Data messages only,
\* whose payloads concatenate to b, and leaves nothing in the buffer.
C8_DataRoundTrip ==
  (c_kind = "encode" /\ c_phase = "done") =>
    /\ c_buf = << >>
    /\ \A i \in 1..Len(c_out) : c_out[i].type = "Data"
    /\ DecodedData(c_out) = c_msgs[1].data

\* C9: parse_telnet(B) returns 0 <= advance <= |B|, advance = 0 exactly when
\* the message is None; and every turn of the decode loop that consumed a
\* message left the buffer strictly shorter.
ParseContract(B) ==
  LET r == parse_telnet(B)
  IN  /\ 0 <= r.advance /\ r.advance <= Len(B)
      /\ (r.advance = 0) <=> (r.msg.type = "None")
      /\ (r.msg.type # "None") => r.advance >= 1

C9_AdvanceContract ==
  /\ [](ParseContract(c_buf))
  /\ [][c_out' # c_out => Len(c_buf') < Len(c_buf)]_vars

C9_Witness ==
  c_kind = "raw" /\ c_phase = "done" /\ Len(c_out) >= 2 /\ c_buf # << >>

\* C10: the payload decoded from IAC SB <option> ... IAC SE is the payload
\* the peer framed, every IAC IAC of the wire form unescaped to one IAC.
C10_PayloadUnescaped ==
  (c_kind = "frame" /\ c_out # << >>) => c_out[1] = c_msgs[1]

(***************************************************************************)
(* Properties of the negotiation state machine, checked under Spec.  They  *)
(* read dispatched: one entry per message the last ingest dispatched, with *)
(* the state before (pre) and after (post), the messages it enqueued       *)
(* (sent) and the callbacks it invoked (calls).                            *)
(***************************************************************************)
Entries == {dispatched[i] : i \in 1..Len(dispatched)}

IsNegotiate(e, command) == e.msg.type = "Negotiate" /\ e.msg.command = command

OfRegistered(e) == e.msg.option \in Registered

Count(seq, x) == Cardinality({i \in 1..Len(seq) : seq[i] = x})

Local(snapshot, e) == snapshot.status[e.msg.option].local
Remote(snapshot, e) == snapshot.status[e.msg.option].remote

\* C1: a DO for a registered option with support_local and local.enabled
\* false sets local.enabled, enqueues WILL exactly if local.negotiating was
\* false, and invokes at_local_enable; likewise WILL, support_remote, the
\* remote half, DO and at_remote_enable.
C1_EnableOnRequest ==
  \A e \in Entries :
    /\ (IsNegotiate(e, DO) /\ OfRegistered(e) /\ support_local(e.msg.option)
        /\ ~Local(e.pre, e).enabled) =>
         /\ Local(e.post, e).enabled
         /\ Count(e.sent, TelnetNegotiate(WILL, e.msg.option))
              = (IF Local(e.pre, e).negotiating THEN 0 ELSE 1)
         /\ Count(e.calls, "at_local_enable") = 1
    /\ (IsNegotiate(e, WILL) /\ OfRegistered(e) /\ support_remote(e.msg.option)
        /\ ~Remote(e.pre, e).enabled) =>
         /\ Remote(e.post, e).enabled
         /\ Count(e.sent, TelnetNegotiate(DO, e.msg.option))
              = (IF Remote(e.pre, e).negotiating THEN 0 ELSE 1)
         /\ Count(e.calls, "at_remote_enable") = 1

C1_Witness ==
  /\ \E e \in Entries :
       /\ IsNegotiate(e, DO) /\ OfRegistered(e) /\ support_local(e.msg.option)
       /\ ~Local(e.pre, e).enabled /\ Local(e.pre, e).negotiating
  /\ negotiation_pc # "start"

\* C2: once start() has run, a half that sent its request is negotiating
\* until a reply to it arrives; after the peer's accepting reply (DO for
\* local, WILL for remote) and after its rejecting reply (DONT, WONT), the
\* half is no longer negotiating.
C2_NegotiatingCleared ==
  /\ (negotiation_pc # "start" /\ nrecv = 0) =>
       \A code \in Registered :
         /\ start_local(code) => status[code].local.negotiating
         /\ start_remote(code) => status[code].remote.negotiating
  /\ \A e \in Entries :
       (e.msg.type = "Negotiate" /\ OfRegistered(e)) =>
         /\ e.msg.command \in {DO, DONT} => ~Local(e.post, e).negotiating
         /\ e.msg.command \in {WILL, WONT} => ~Remote(e.post, e).negotiating

\* C3: a local half is enabled only if the option has support_local and the
\* last DO/DONT received for it was a DO; a remote half only if the option
\* has support_remote and the last WILL/WONT received was a WILL.  (Nothing
\* received means nothing enabled, whatever the connection has sent.)
C3_EnabledOnlyByPeer ==
  \A code \in Registered :
    /\ status[code].local.enabled =>
         support_local(code) /\ recent[code].local = DO
    /\ status[code].remote.enabled =>
         support_remote(code) /\ recent[code].remote = WILL

C3_Witness ==
  /\ negotiation_pc # "start"
  /\ \E code \in Registered : status[code].local.enabled
  /\ \E code \in Registered :
       /\ recent[code].remote = WONT
       /\ ~status[code].remote.enabled

\* C4: a DONT for a registered option with support_local clears
\* local.enabled and invokes at_local_disable if it was set, clears
\* local.negotiating and invokes at_local_reject if it was set, and does
\* neither otherwise; without support_local it changes nothing.  Likewise
\* WONT with the remote half.
C4_DisableOnRefusal ==
  \A e \in Entries :
    /\ (IsNegotiate(e, DONT) /\ OfRegistered(e)) =>
         IF support_local(e.msg.option)
         THEN /\ ~Local(e.post, e).enabled
              /\ ~Local(e.post, e).negotiating
              /\ Count(e.calls, "at_local_disable")
                   = (IF Local(e.pre, e).enabled THEN 1 ELSE 0)
              /\ Count(e.calls, "at_local_reject")
                   = (IF Local(e.pre, e).negotiating THEN 1 ELSE 0)
         ELSE e.post = e.pre /\ e.calls = << >> /\ e.sent = << >>
    /\ (IsNegotiate(e, WONT) /\ OfRegistered(e)) =>
         IF support_remote(e.msg.option)
         THEN /\ ~Remote(e.post, e).enabled
              /\ ~Remote(e.post, e).negotiating
              /\ Count(e.calls, "at_remote_disable")
                   = (IF Remote(e.pre, e).enabled THEN 1 ELSE 0)
              /\ Count(e.calls, "at_remote_reject")
                   = (IF Remote(e.pre, e).negotiating THEN 1 ELSE 0)
         ELSE e.post = e.pre /\ e.calls = << >> /\ e.sent = << >>

C4_Witness ==
  \E e \in Entries :
    /\ IsNegotiate(e, DONT) /\ OfRegistered(e) /\ support_local(e.msg.option)
    /\ Local(e.pre, e).enabled /\ Local(e.pre, e).negotiating
    /\ e.calls = <<"at_local_disable", "at_local_reject">>

\* C5: a WILL for an option whose remote half is enabled, or a DO for one
\* whose local half is enabled, invokes no callback, enqueues nothing and
\* changes no state; and every dispatched negotiation invokes at_local_enable
\* (at_remote_enable) once if it turned local.enabled (remote.enabled) from
\* false to true and not at all otherwise.
C5_DuplicateIsNoOp ==
  \A e \in Entries :
    (e.msg.type = "Negotiate" /\ OfRegistered(e)) =>
      /\ ((IsNegotiate(e, WILL) /\ Remote(e.pre, e).enabled)
          \/ (IsNegotiate(e, DO) /\ Local(e.pre, e).enabled)) =>
           e.calls = << >> /\ e.sent = << >> /\ e.post = e.pre
      /\ Count(e.calls, "at_local_enable")
           = (IF ~Local(e.pre, e).enabled /\ Local(e.post, e).enabled THEN 1 ELSE 0)
      /\ Count(e.calls, "at_remote_enable")
           = (IF ~Remote(e.pre, e).enabled /\ Remote(e.post, e).enabled THEN 1 ELSE 0)

C5_Witness ==
  \E e \in Entries :
    /\ IsNegotiate(e, DO) /\ OfRegistered(e)
    /\ e.msg.option = MCCP2 /\ Local(e.pre, e).enabled

\* C6: for an option that is not registered, WILL is answered by one DONT,
\* DO by one WONT, WONT and DONT by nothing, and a subnegotiation changes
\* nothing; for a registered option, WILL without support_remote and DO
\* without support_local are answered by one DONT and leave the half-states
\* as they were.
C6_RefusalPolicy ==
  \A e \in Entries :
    /\ (e.msg.type = "Negotiate" /\ ~OfRegistered(e)) =>
         /\ e.sent = CASE e.msg.command = WILL -> <<TelnetNegotiate(DONT, e.msg.option)>>
                       [] e.msg.command = DO -> <<TelnetNegotiate(WONT, e.msg.option)>>
                       [] OTHER -> << >>
         /\ e.post = e.pre
    /\ (e.msg.type = "SubNegotiate" /\ ~OfRegistered(e)) =>
         e.sent = << >> /\ e.calls = << >> /\ e.post = e.pre
    /\ (OfRegistered(e)
        /\ \/ IsNegotiate(e, WILL) /\ ~support_remote(e.msg.option)
           \/ IsNegotiate(e, DO) /\ ~support_local(e.msg.option)) =>
         /\ e.sent = <<TelnetNegotiate(DONT, e.msg.option)>>
         /\ e.post.status = e.pre.status

C6_Witness ==
  /\ \E e \in Entries :
       e.msg.type = "SubNegotiate" /\ ~OfRegistered(e)
  /\ tn_out_queue # << >>
  /\ Head(tn_out_queue) = TelnetNegotiate(WONT, SGA)

(***************************************************************************)
(* The application side: calls of the outward API from other tasks.        *)
(***************************************************************************)
\* The call changes the outbound queue only; app_call notes the call, the
\* capabilities it was made with and what it enqueued.
AppCall(name, arg, c) ==
  /\ nsend < MaxSend
  /\ nsend' = nsend + 1
  /\ tn_out_queue' = c.tn_out_queue
  /\ app_call' = [name |-> name, arg |-> arg, capabilities |-> capabilities,
                  sent |-> DropFirst(c.tn_out_queue, Len(tn_out_queue))]
  /\ UNCHANGED <<reader_pc, reader_local, status, negotiation, number_requests, capabilities,
                 tn_read_buffer, tn_app_data, user_input_queue, tn_compress_out,
                 tn_decompress_in, tn_writer, negotiation_pc, writer_pc, recent,
                 dispatched, nrecv, codecVars>>

\* the texts the application sends: "", "a" and "a\n"
Texts == {<< >>, <<97>>, <<97, LF>>}

SendText == \E text \in Texts : AppCall("send_text", text, send_text(Conn, text))

(***************************************************************************)
(* The writer with the tasks that feed its queue: the negotiation task,    *)
(* the reader (the peer answers the offer of MCCP2, or takes the answer    *)
(* back) and the application sending text.  SpecWriterLive adds what the   *)
(* event loop guarantees: a task that can run does run, and the 500 ms     *)
(* timeout of the negotiation task expires.                                *)
(***************************************************************************)
CompressChunks ==
  {Bytes(TelnetNegotiate(command, MCCP2)) : command \in {DO, DONT}}

ReceiveCompress ==
  /\ nrecv < MaxRecv
  /\ \E data \in CompressChunks : Becomes(tn_at_receive_raw_data(Conn, data))
  /\ nrecv' = nrecv + 1
  /\ UNCHANGED <<reader_pc, reader_local, tn_compress_out, tn_writer, negotiation_pc, writer_pc, nsend,
                 app_call, codecVars>>

NextWriter == StartOptions \/ RunLink \/ ReceiveCompress \/ SendText \/ Write

SpecWriter == Init /\ [][NextWriter]_vars

SpecWriterLive ==
  /\ Init
  /\ [][NextWriter]_vars
  /\ WF_vars(StartOptions)
  /\ WF_vars(RunLink)
  /\ WF_vars(Write)

(***************************************************************************)
(* Properties of the writer and of the negotiation task.                   *)
(***************************************************************************)
Activation == TelnetSubNegotiate(MCCP2, << >>)

\* a step of the writer: the only step that takes an item off the queue
IsWrite ==
  /\ writer_pc = "run"
  /\ tn_out_queue # << >>
  /\ tn_out_queue' = Tail(tn_out_queue)

\* what the step wrote to the stream
Written == DropFirst(tn_writer', Len(tn_writer))

Falsy(item) == item.type = "bytes" /\ item.data = << >>

\* the stream so far: plain bytes, then code words of the deflate stream
PlainThenDeflated ==
  \E k \in 0..Len(tn_writer) :
    /\ \A i \in 1..k : tn_writer[i] < ZBase
    /\ \A i \in (k + 1)..Len(tn_writer) : tn_writer[i] >= ZBase
    /\ capabilities.mccp2_enabled =>
         endswith(SubSeq(tn_writer, 1, k), Bytes(Activation))
    /\ ~capabilities.mccp2_enabled => k = Len(tn_writer)

\* C11: mccp2_enabled turns true exactly in the writer's step that has
\* written the MCCP2 activation frame uncompressed, and the deflate stream
\* is created in that step and in no other; every item written while
\* mccp2_enabled is false goes out as it is and every item written after is
\* deflated, so the stream is plain bytes ending with the frame's IAC SE
\* followed by deflated bytes only, whatever other tasks enqueue meanwhile.
C11_Mccp2Ordering ==
  /\ [](PlainThenDeflated)
  /\ [](capabilities.mccp2_enabled <=> (tn_compress_out = "open"))
  /\ [][(IsWrite /\ ~Falsy(Head(tn_out_queue))) =>
          Written = IF capabilities.mccp2_enabled
                    THEN Deflate(Bytes(Head(tn_out_queue)))
                    ELSE Bytes(Head(tn_out_queue))]_vars
  /\ [][(capabilities.mccp2_enabled' # capabilities.mccp2_enabled
          \/ tn_compress_out' # tn_compress_out) =>
          /\ IsWrite
          /\ Head(tn_out_queue) = Activation
          /\ Written = Bytes(Activation)
          /\ ~capabilities.mccp2_enabled /\ capabilities.mccp2_enabled'
          /\ tn_compress_out = "None" /\ tn_compress_out' = "open"]_vars
  /\ [][(IsWrite /\ Head(tn_out_queue) = Activation) =>
          capabilities.mccp2_enabled']_vars

C11_Witness ==
  /\ capabilities.mccp2_enabled
  /\ app_call.name = "send_text"
  /\ nsend = MaxSend
  /\ tn_out_queue = << >>
  /\ tn_writer[1] = IAC
  /\ tn_writer[Len(tn_writer)] = ZBase + 97

\* C14: while the writer is not cancelled, an item on the outbound queue
\* has a writer that will take it: the writer's loop is still running.
\* (Items leave the queue from its head, so in enqueue order.)
C14_WriterServesQueue ==
  tn_out_queue # << >> => writer_pc = "run"

\* the requests start() enqueues, option by option in registry order
StartRequests ==
  [i \in 1..Len(supported_options) |->
     TelnetNegotiate(IF start_local(supported_options[i]) THEN WILL ELSE DO,
                     supported_options[i])]

\* C15: the negotiation task first invokes start() on every option in
\* registry order, then (the events set or the timeout expired) invokes
\* run_link, once, and it does so eventually even if the peer never answers.
C15_RunLinkOnce ==
  /\ <>(negotiation_pc = "linked")
  /\ [][negotiation_pc' # negotiation_pc =>
          \/ /\ negotiation_pc = "start" /\ negotiation_pc' = "wait"
             /\ DropFirst(tn_out_queue', Len(tn_out_queue)) = StartRequests
          \/ negotiation_pc = "wait" /\ negotiation_pc' = "linked"]_vars

C15_Witness ==
  negotiation_pc = "linked" /\ nrecv = 0 /\ \A code \in Registered : ~negotiation[code]

(***************************************************************************)
(* The reader fed from a script: the peer's bytes c_input are fixed at the *)
(* start, and each read returns the next bytes of them, cut anywhere.      *)
(* c_buf is what the peer has not sent yet, and c_out the Command,         *)
(* Negotiate and SubNegotiate messages dispatched since the start.         *)
(***************************************************************************)
Controls(log) ==
  LET msgs == [i \in 1..Len(log) |-> log[i].msg]
  IN  SelectSeq(msgs, LAMBDA msg : msg.type # "Data")

Feed ==
  /\ c_buf # << >>
  /\ \E n \in 1..Len(c_buf) :
       LET c == tn_at_receive_raw_data(Conn, SubSeq(c_buf, 1, n))
       IN  /\ Becomes(c)
           /\ c_out' = c_out \o Controls(c.log)
           /\ c_buf' = DropFirst(c_buf, n)
  /\ nrecv' = nrecv + 1
  /\ UNCHANGED <<reader_pc, reader_local, tn_compress_out, tn_writer, negotiation_pc, writer_pc, nsend,
                 app_call, c_kind, c_msgs, c_input, c_phase>>

NextFeed == Feed

(***************************************************************************)
(* MCCP3.  The peer sends a run of plain tokens, the activation frame      *)
(* IAC SB MCCP3 IAC SE, and a deflate stream of a second run.  In "mccp3"  *)
(* the stream goes on; in "mccp3_end" it ends and plain tokens follow; in  *)
(* "mccp3_bad" a byte that is not of the stream follows it.  A token is a  *)
(* line of text or a DO for an option that is not registered (answered by  *)
(* WONT), so what was parsed shows in the two queues.                      *)
(***************************************************************************)
RunTokens == {"line", "do"}

TokenBytes(t) == IF t = "line" THEN <<97, LF>> ELSE <<IAC, DO, SGA>>

RECURSIVE RunBytes(_)
RunBytes(run) ==
  IF run = << >> THEN << >> ELSE TokenBytes(Head(run)) \o RunBytes(Tail(run))

RunLines(run) == [i \in 1..Len(SelectSeq(run, LAMBDA t : t = "line")) |-> <<97>>]

RunReplies(run) ==
  [i \in 1..Len(SelectSeq(run, LAMBDA t : t = "do")) |-> TelnetNegotiate(WONT, SGA)]

Runs == SeqsUpTo(RunTokens, MaxRun)

Mccp3Frame == Bytes(TelnetSubNegotiate(MCCP3, << >>))

InitInflate ==
  /\ InitConn
  /\ \E before \in Runs, inside \in Runs, after \in Runs :
       /\ c_msgs = <<before, inside, after>>
       /\ \/ /\ c_kind = "mccp3"
             /\ after = << >>
             /\ c_input = RunBytes(before) \o Mccp3Frame \o Deflate(RunBytes(inside))
          \/ /\ c_kind = "mccp3_end"
             /\ after # << >>
             /\ c_input = RunBytes(before) \o Mccp3Frame \o Deflate(RunBytes(inside))
                            \o <<ZEnd>> \o RunBytes(after)
          \/ /\ c_kind = "mccp3_bad"
             /\ c_input = RunBytes(before) \o Mccp3Frame \o Deflate(RunBytes(inside))
                            \o <<NULL>> \o RunBytes(after)
  /\ c_buf = c_input
  /\ c_out = << >>
  /\ c_phase = "run"

SpecInflate == InitInflate /\ [][NextFeed]_vars

IsActivation(e) == e.msg.type = "SubNegotiate" /\ e.msg.option = MCCP3

\* C12: mccp3_enabled turns true in the dispatch of a SubNegotiate(MCCP3)
\* and nowhere else, and every such dispatch leaves it true; once the peer
\* has sent a plain run, the frame and a deflate stream, cut into reads
\* anywhere, everything of both runs has been parsed exactly once and in
\* order (the run before the frame as it came, the run after it inflated),
\* and the inflate stream is still the one opened by the frame.
C12_InflateFromFrame ==
  /\ [](\A e \in Entries : IsActivation(e) => e.post.capabilities.mccp3_enabled)
  /\ [][(~capabilities.mccp3_enabled /\ capabilities.mccp3_enabled') =>
          \E i \in 1..Len(dispatched') :
            /\ IsActivation(dispatched'[i])
            /\ ~dispatched'[i].pre.capabilities.mccp3_enabled]_vars
  /\ []((c_kind = "mccp3" /\ c_buf = << >>) =>
          /\ user_input_queue = RunLines(c_msgs[1]) \o RunLines(c_msgs[2])
          /\ tn_out_queue = RunReplies(c_msgs[1]) \o RunReplies(c_msgs[2])
          /\ tn_read_buffer = << >>
          /\ capabilities.mccp3_enabled
          /\ tn_decompress_in = "open")

\* the frame came in one read with bytes before it and bytes of the stream
\* after it: the last read dispatched a message, the frame, and a message
\* inflated from what was left in the read buffer
C12_Witness ==
  /\ c_kind = "mccp3" /\ c_buf = << >>
  /\ c_msgs[1] # << >> /\ c_msgs[2] = <<"line">>
  /\ nrecv = 2
  /\ \E i \in 2..(Len(dispatched) - 1) : IsActivation(dispatched[i])
  /\ user_input_queue = <<<<97>>, <<97>>>>

\* C13: once the inflate stream has ended before the end of the input or
\* has met a byte that is not of it, mccp3_enabled is false, the stream is
\* dropped and one WONT MCCP3 has been enqueued.
C13_InflateErrorRefuses ==
  (c_kind \in {"mccp3_end", "mccp3_bad"} /\ c_buf = << >>) =>
    /\ ~capabilities.mccp3_enabled
    /\ tn_decompress_in = "None"
    /\ Count(tn_out_queue, TelnetNegotiate(WONT, MCCP3)) = 1

(***************************************************************************)
(* Application data.  The peer sends a sequence of tokens: the letter a,   *)
(* CR, LF, the word IDLE, or the byte 0xFF (IAC IAC on the wire), cut into *)
(* reads anywhere.                                                         *)
(***************************************************************************)
LineTokens == {"a", "cr", "lf", "idle", "ff"}

\* the bytes of application data a token stands for
TokenData(t) ==
  CASE t = "a" -> <<97>>
    [] t = "cr" -> <<CR>>
    [] t = "lf" -> <<LF>>
    [] t = "idle" -> STR_IDLE
    [] OTHER -> <<IAC>>

RECURSIVE TokensData(_)
TokensData(tokens) ==
  IF tokens = << >> THEN << >> ELSE TokenData(Head(tokens)) \o TokensData(Tail(tokens))

InitLines ==
  /\ InitConn
  /\ c_kind = "lines"
  /\ c_msgs \in SeqsUpTo(LineTokens, MaxTokens)
  /\ c_input = Escape(TokensData(c_msgs))
  /\ c_buf = c_input
  /\ c_out = << >>
  /\ c_phase = "run"

SpecLines == InitLines /\ [][NextFeed]_vars

\* the application data cut at every LF: the complete lines, in order
RECURSIVE Segments(_)
Segments(data) ==
  LET k == find(data, LF)
  IN  IF k = -1 THEN << >>
      ELSE <<Slice(data, 0, k)>> \o Segments(DropFirst(data, k + 1))

RECURSIVE StripCR(_)
StripCR(text) ==
  IF text # << >> /\ text[Len(text)] = CR
  THEN StripCR(SubSeq(text, 1, Len(text) - 1)) ELSE text

\* the text of each complete line, trailing CR stripped, lines that read
\* IDLE left out
LinesToPush(data) ==
  SelectSeq([i \in 1..Len(Segments(data)) |-> StripCR(decode_ignore(Segments(data)[i]))],
            LAMBDA line : line # STR_IDLE)

\* C16: once all of the peer's data has been dispatched, whatever the cut
\* into reads, the input queue holds at most one command per LF received,
\* no command ends with CR, none is IDLE, and the commands are the peer's
\* complete lines in order; the line not yet ended by LF is still buffered.
C16_LineAssembly ==
  (c_kind = "lines" /\ c_buf = << >>) =>
    /\ Len(user_input_queue) <= Count(TokensData(c_msgs), LF)
    /\ \A i \in 1..Len(user_input_queue) :
         /\ user_input_queue[i] # STR_IDLE
         /\ user_input_queue[i] = << >>
            \/ user_input_queue[i][Len(user_input_queue[i])] # CR
    /\ user_input_queue = LinesToPush(TokensData(c_msgs))
    /\ find(tn_app_data, LF) = -1

(***************************************************************************)
(* The options and the application.  The peer answers the requests of      *)
(* start(), takes answers back, and sends subnegotiations: an MTTS reply   *)
(* (IAC SB MTTS 0 <text> IAC SE), the same reply twice in one read, a      *)
(* whole MTTS exchange (WILL, client name, terminal type, "MTTS 2047"),    *)
(* a NAWS report, and DO MCCP3 with the MCCP3 frame, after which a byte    *)
(* that is no deflate data ends the compression.  The application calls    *)
(* send_mssp and send_gmcp at any time.                                    *)
(***************************************************************************)
MttsReply(text) == Bytes(TelnetSubNegotiate(MTTS, <<0>> \o text))

STR_MUDLET == <<77, 85, 68, 76, 69, 84>>
STR_2047 == <<50, 48, 52, 55>>

OptionChunks ==
  {Bytes(TelnetNegotiate(command, code)) :
     command \in {WILL, WONT}, code \in {NAWS, MTTS}}
  \cup {Bytes(TelnetNegotiate(command, MSSP)) : command \in {DO, DONT}}
  \cup {Bytes(TelnetNegotiate(DO, GMCP)),
        MttsReply(STR_MUDLET),
        MttsReply(STR_MUDLET) \o MttsReply(STR_MUDLET),
        Bytes(TelnetNegotiate(WILL, MTTS)) \o MttsReply(STR_MUDLET)
          \o MttsReply(STR_XTERM) \o MttsReply(STR_MTTS_ \o STR_2047),
        Bytes(TelnetSubNegotiate(NAWS, <<0, 80, 0, 24>>)),
        Bytes(TelnetNegotiate(DO, MCCP3)) \o Mccp3Frame,
        <<NULL>>}

ReceiveOption ==
  /\ nrecv < MaxRecv
  /\ \E data \in OptionChunks : Becomes(tn_at_receive_raw_data(Conn, data))
  /\ nrecv' = nrecv + 1
  /\ UNCHANGED <<reader_pc, reader_local, tn_compress_out, tn_writer, negotiation_pc, writer_pc, nsend,
                 app_call, codecVars>>

\* {"NAME": "x"} and the empty dict
MsspDicts == {<< >>, <<<<<<78, 65, 77, 69>>, <<120>>>>>>}

SendMssp == \E data \in MsspDicts : AppCall("send_mssp", data, send_mssp(Conn, data))

GmcpCalls == {<<<<99>>, NoData>>, <<<<99>>, <<49>>>>}

SendGmcp ==
  \E call \in GmcpCalls :
    AppCall("send_gmcp", call, send_gmcp(Conn, call[1], call[2]))

NextOptions == StartOptions \/ ReceiveOption \/ SendMssp \/ SendGmcp

SpecOptions == Init /\ [][NextOptions]_vars

FeatureBits ==
  {"naws", "mtts", "mssp", "mccp2", "mccp3", "gmcp", "vt100", "proxy",
   "screenreader", "mouse_tracking", "osc_color_palette", "mnes", "mslp",
   "encryption"}

\* C17: no step turns a feature bit of the capabilities from true to false.
C17_FeatureBitsMonotone ==
  [][\A k \in FeatureBits : capabilities[k] => capabilities'[k]]_vars

\* the MTTS exchange has set the bits of "MTTS 2047" and the peer has then
\* refused MTTS: the option is off, the bits stay
C17_Witness ==
  /\ capabilities.mtts /\ capabilities.mslp /\ capabilities.vt100
  /\ recent[MTTS].remote = WONT
  /\ ~status[MTTS].remote.enabled

IsSubNegotiateOf(msg, code) == msg.type = "SubNegotiate" /\ msg.option = code

\* C18: the dispatch of the peer's DO GMCP leaves capabilities.gmcp true,
\* and send_gmcp enqueues one SubNegotiate(GMCP) when called with
\* capabilities.gmcp true and nothing when called with it false.
C18_GmcpEnabled ==
  /\ \A e \in Entries :
       (IsNegotiate(e, DO) /\ e.msg.option = GMCP) => e.post.capabilities.gmcp
  /\ app_call.name = "send_gmcp" =>
       IF app_call.capabilities.gmcp
       THEN Len(app_call.sent) = 1 /\ IsSubNegotiateOf(app_call.sent[1], GMCP)
       ELSE app_call.sent = << >>

\* C19: the dispatch of the peer's DO MSSP, after start() has sent WILL MSSP,
\* leaves capabilities.mssp true and the option's event set and enqueues no
\* WILL MSSP; send_mssp enqueues one SubNegotiate(MSSP) if called with
\* capabilities.mssp true and a dict that is not empty, and nothing otherwise.
C19_MsspHandshake ==
  /\ \A e \in Entries :
       (IsNegotiate(e, DO) /\ e.msg.option = MSSP /\ Local(e.pre, e).negotiating
        /\ ~Local(e.pre, e).enabled) =>
         /\ e.post.capabilities.mssp
         /\ e.post.negotiation[MSSP]
         /\ Count(e.sent, TelnetNegotiate(WILL, MSSP)) = 0
  /\ app_call.name = "send_mssp" =>
       IF app_call.capabilities.mssp /\ app_call.arg # << >>
       THEN Len(app_call.sent) = 1 /\ IsSubNegotiateOf(app_call.sent[1], MSSP)
       ELSE app_call.sent = << >>

C19_Witness ==
  /\ negotiation_pc = "wait"
  /\ capabilities.mssp /\ negotiation[MSSP]
  /\ app_call.name = "send_mssp" /\ app_call.capabilities.mssp
  /\ app_call.arg # << >>
  /\ nsend = MaxSend
  /\ Count(tn_out_queue, TelnetNegotiate(WILL, MSSP)) = 1

\* an MTTS reply (prefix byte 0) dispatched to the option
IsMttsReply(e) ==
  /\ IsSubNegotiateOf(e.msg, MTTS)
  /\ e.msg.data # << >> /\ e.msg.data[1] = 0

\* C20: an MTTS reply with the payload of a reply received before, in answer
\* to a request, marks the option settled and does nothing else: it sends
\* no request, leaves number_requests alone and changes no capability.
C20_DuplicateReplySettles ==
  \A i \in 1..Len(dispatched) : \A j \in (i + 1)..Len(dispatched) :
    (/\ IsMttsReply(dispatched[i]) /\ IsMttsReply(dispatched[j])
     /\ dispatched[i].msg.data = dispatched[j].msg.data
     /\ dispatched[i].pre.number_requests >= 1) =>
      /\ dispatched[j].post.negotiation[MTTS]
      /\ dispatched[j].sent = << >>
      /\ dispatched[j].post.number_requests = dispatched[j].pre.number_requests
      /\ dispatched[j].post.capabilities = dispatched[j].pre.capabilities

MttsRequest == TelnetSubNegotiate(MTTS, <<1>>)

\* the capabilities a handler of MTTSOption leaves, given those it found
After(handled) == handled.capabilities

\* C21: the WILL that enables the remote half of MTTS sets capabilities.mtts,
\* adds one to number_requests, enqueues one request and does not set the
\* event; a reply (prefix byte 0, a text that is not empty) found with
\* number_requests 1 is handled as the client name and followed by one
\* request, with 2 as the terminal type and followed by one request, with 3
\* as the MTTS bitfield, after which the event is set and nothing is sent.
C21_MttsThreeSteps ==
  \A e \in Entries :
    /\ (IsNegotiate(e, WILL) /\ e.msg.option = MTTS /\ ~Remote(e.pre, e).enabled) =>
         /\ e.post.capabilities.mtts
         /\ e.post.number_requests = e.pre.number_requests + 1
         /\ Count(e.sent, MttsRequest) = 1
         /\ e.sent[Len(e.sent)] = MttsRequest
         /\ e.post.negotiation[MTTS] = e.pre.negotiation[MTTS]
    /\ (IsMttsReply(e) /\ Len(e.msg.data) > 1 /\ IsAscii(e.msg.data)) =>
         LET payload == DropFirst(e.msg.data, 1)
             found == [capabilities |-> e.pre.capabilities]
         IN  CASE e.pre.number_requests = 1 ->
                    /\ e.post.capabilities = After(handle_name(found, payload))
                    /\ e.post.capabilities.client_name # << >>
                    /\ e.sent = <<MttsRequest>>
                    /\ e.post.number_requests = 2
                    /\ e.post.negotiation[MTTS] = e.pre.negotiation[MTTS]
               [] e.pre.number_requests = 2 ->
                    /\ e.post.capabilities = After(handle_ttype(found, payload))
                    /\ e.sent = <<MttsRequest>>
                    /\ e.post.number_requests = 3
                    /\ e.post.negotiation[MTTS] = e.pre.negotiation[MTTS]
               [] e.pre.number_requests = 3 ->
                    /\ e.post.capabilities = After(handle_standard(found, payload))
                    /\ e.sent = << >>
                    /\ e.post.number_requests = 3
                    /\ e.post.negotiation[MTTS]
               [] OTHER -> TRUE

\* the whole exchange in one read: the third reply set the bits of "MTTS 2047"
C21_Witness ==
  /\ \E e \in Entries :
       /\ IsMttsReply(e) /\ e.pre.number_requests = 3
       /\ ~e.pre.negotiation[MTTS]
       /\ ~e.pre.capabilities.screenreader /\ e.post.capabilities.screenreader
  /\ \E e \in Entries : IsMttsReply(e) /\ e.pre.number_requests = 1
  /\ capabilities.client_name = STR_MUDLET
  /\ number_requests = 3

(***************************************************************************)
(* NAWS.  The peer sends a window-size report of 258 columns and 24 rows,  *)
(* or none, and then a NAWS subnegotiation with any payload of up to       *)
(* MaxNaws bytes.                                                          *)
(***************************************************************************)
MaxNaws == 4

NawsBytes == {NULL, 1, IAC}

NawsReport == <<1, 2, NULL, 24>>

InitNaws ==
  /\ InitConn
  /\ c_kind = "naws"
  /\ \E first \in {<< >>, <<NawsReport>>} :
     \E payload \in SeqsUpTo(NawsBytes, MaxNaws) :
       c_msgs = first \o <<payload>>
  /\ c_input = WireAll([i \in 1..Len(c_msgs) |-> TelnetSubNegotiate(NAWS, c_msgs[i])])
  /\ c_buf = c_input
  /\ c_out = << >>
  /\ c_phase = "run"

SpecNaws == InitNaws /\ [][NextFeed]_vars

\* the unsigned 16-bit number whose bytes, high byte first, are data[i] and
\* data[i + 1]
BigEndian(data, i) == data[i] * (IAC + 1) + data[i + 1]

\* C22: the dispatch of a SubNegotiate(NAWS) whose payload has 4 bytes
\* leaves width the big-endian number of the first two and height that of
\* the last two, and every other capability as it was; the dispatch of one
\* whose payload has any other length leaves every capability as it was;
\* neither enqueues anything.
C22_NawsReport ==
  \A e \in Entries :
    IsSubNegotiateOf(e.msg, NAWS) =>
      /\ e.sent = << >>
      /\ IF Len(e.msg.data) = 4
         THEN e.post.capabilities =
                [e.pre.capabilities EXCEPT !.width = BigEndian(e.msg.data, 1),
                                           !.height = BigEndian(e.msg.data, 3)]
         ELSE e.post.capabilities = e.pre.capabilities

\* a report of 258 by 24 was taken, and the payload of 3 bytes that came
\* after it in a read of its own left it standing
C22_Witness ==
  /\ c_kind = "naws" /\ c_buf = << >>
  /\ capabilities.width = 258 /\ capabilities.height = 24
  /\ \E e \in Entries : IsSubNegotiateOf(e.msg, NAWS) /\ Len(e.msg.data) = 3
  /\ Len(dispatched) = 1

(***************************************************************************)
(* ensure_crlf applied to every str of up to MaxText characters over a     *)
(* letter, CR, LF and chr(255).                                            *)
(***************************************************************************)
MaxText == 4

TextChars == {97, CR, LF, IAC}

InitText ==
  /\ InitConn
  /\ c_kind = "text"
  /\ c_msgs = << >>
  /\ c_input \in SeqsUpTo(TextChars, MaxText)
  /\ c_buf = c_input
  /\ c_out = << >>
  /\ c_phase = "run"

Normalize ==
  /\ c_kind = "text" /\ c_phase = "run"
  /\ c_out' = ensure_crlf(c_input)
  /\ c_buf' = << >>
  /\ c_phase' = "done"
  /\ UNCHANGED <<c_kind, c_msgs, c_input, connVars>>

NextText == Normalize

SpecText == InitText /\ [][NextText]_vars

\* str with every run of CR made one CR
RECURSIVE CollapseCR(_)
CollapseCR(str) ==
  IF Len(str) < 2 THEN str
  ELSE IF str[1] = CR /\ str[2] = CR THEN CollapseCR(Tail(str))
  ELSE <<Head(str)>> \o CollapseCR(Tail(str))

\* str without the CRs that stand right before an LF
RECURSIVE DropCRBeforeLF(_)
DropCRBeforeLF(str) ==
  IF Len(str) < 2 THEN str
  ELSE IF str[1] = CR /\ str[2] = LF THEN DropCRBeforeLF(Tail(str))
  ELSE <<Head(str)>> \o DropCRBeforeLF(Tail(str))

\* str with every pair of chr(255) made one; <<-1>> if one stands alone
RECURSIVE Undouble(_)
Undouble(str) ==
  IF str = << >> THEN << >>
  ELSE IF Head(str) # IAC
       THEN LET rest == Undouble(Tail(str))
            IN  IF rest = <<-1>> THEN rest ELSE <<Head(str)>> \o rest
  ELSE IF Len(str) < 2 \/ str[2] # IAC THEN <<-1>>
  ELSE LET rest == Undouble(DropFirst(str, 2))
       IN  IF rest = <<-1>> THEN rest ELSE <<IAC>> \o rest

\* C23: in the str returned by ensure_crlf every LF has a CR right before
\* it, no two CRs are adjacent, every chr(255) of the input stands doubled,
\* and apart from the CRs before LFs and the doubling the str is the input
\* with each run of CRs made one: every other character is there once, in
\* the input's order.
C23_EnsureCrlf ==
  (c_kind = "text" /\ c_phase = "done") =>
    /\ \A i \in 1..Len(c_out) : c_out[i] = LF => (i > 1 /\ c_out[i - 1] = CR)
    /\ \A i \in 1..(Len(c_out) - 1) : ~(c_out[i] = CR /\ c_out[i + 1] = CR)
    /\ Count(c_out, IAC) = 2 * Count(c_input, IAC)
    /\ DropCRBeforeLF(Undouble(c_out)) = DropCRBeforeLF(CollapseCR(c_input))

\* two CRs, an LF and a chr(255) came out as one CR, the LF and two chr(255)
C23_Witness ==
  /\ c_kind = "text" /\ c_phase = "done"
  /\ c_input = <<CR, CR, LF, IAC>>
  /\ c_out = <<CR, LF, IAC, IAC>>

(***************************************************************************)
(* Chunking.  With compression off the peer sends up to MaxTokens items:   *)
(* a line, WILL NAWS, a window-size report, or an MTTS reply whose text is *)
(* the byte 0x80, which is not UTF-8.  The reads cut the bytes anywhere,   *)
(* through frames and lines alike.                                         *)
(***************************************************************************)
ChunkTokens == {"line", "will", "naws", "mtts"}

ChunkBytes(t) ==
  CASE t = "line" -> <<97, LF>>
    [] t = "will" -> <<IAC, WILL, NAWS>>
    [] t = "naws" -> <<IAC, SB, NAWS>> \o NawsReport \o <<IAC, SE>>
    [] t = "mtts" -> <<IAC, SB, MTTS, NULL, 128, IAC, SE>>

RECURSIVE ChunksBytes(_)
ChunksBytes(tokens) ==
  IF tokens = << >> THEN << >>
  ELSE ChunkBytes(Head(tokens)) \o ChunksBytes(Tail(tokens))

InitChunks ==
  /\ InitConn
  /\ c_kind = "chunks"
  /\ c_msgs \in SeqsUpTo(ChunkTokens, MaxTokens)
  /\ c_input = ChunksBytes(c_msgs)
  /\ c_buf = c_input
  /\ c_out = << >>
  /\ c_phase = "run"

SpecChunks == InitChunks /\ [][NextFeed]_vars

\* the connection as __init__ leaves it
ConnAtInit ==
  [status |-> [code \in Registered |-> TelnetOptionPerspective],
   negotiation |-> [code \in Registered |-> FALSE],
   number_requests |-> 0, capabilities |-> InitCapabilities(FALSE),
   tn_read_buffer |-> << >>, tn_app_data |-> << >>,
   user_input_queue |-> << >>, tn_out_queue |-> << >>,
   tn_decompress_in |-> "None",
   recent |-> [code \in Registered |-> [local |-> 0, remote |-> 0]],
   calls |-> << >>, raised |-> FALSE, log |-> << >>]

\* the connection after the whole input has arrived in one read
InOneRead == tn_at_receive_raw_data(ConnAtInit, c_input)

\* C24: once all bytes of the input have been read, in however many reads,
\* the Command, Negotiate and SubNegotiate messages dispatched, the lines
\* put on the input queue and the read buffer are those of the same input
\* arriving in one read.
C24_ChunkingIndependent ==
  (c_kind = "chunks" /\ c_buf = << >>) =>
    /\ c_out = Controls(InOneRead.log)
    /\ user_input_queue = InOneRead.user_input_queue
    /\ tn_read_buffer = InOneRead.tn_read_buffer

(***************************************************************************)
(* The compression handlers step by step.  change_capabilities is awaited  *)
(* between the flag and the handle: MCCP2Option.at_send_subnegotiate and   *)
(* MCCP3Option.at_receive_subnegotiate set the flag, may be suspended, and *)
(* then assign the handle; MCCP3Option.at_decompress_end drops the handle, *)
(* may be suspended, and has the flag cleared.  While one task is          *)
(* suspended the others run.                                               *)
(***************************************************************************)
mccp3_set_enabled(c) == change_capabilities(c, [mccp3_enabled |-> TRUE])

mccp3_assign_handle(c) ==
  LET r == Decompress("open", c.tn_read_buffer)
  IN  [c EXCEPT !.tn_decompress_in = r.state,
                !.tn_read_buffer = IF r.error THEN @ ELSE r.out]

mccp3_drop_handle(c) == [c EXCEPT !.tn_decompress_in = "None"]

\* at_decompress_end as it would be if it left the flag set
mccp3_keep_enabled(c) == c

mccp3_clear_enabled(c) == change_capabilities(c, [mccp3_enabled |-> FALSE])

\* the parse loop of _tn_at_receive_raw_data up to its end or to the await
\* of MCCP3Option.at_receive_subnegotiate
RECURSIVE parse_loop_to_await(_)
parse_loop_to_await(c) ==
  LET r == parse_telnet(c.tn_read_buffer)
      c1 == [c EXCEPT !.tn_read_buffer = DropFirst(@, r.advance)]
  IN  IF r.msg.type = "None" \/ c.raised THEN [conn |-> c, pc |-> "read"]
      ELSE IF IsSubNegotiateOf(r.msg, MCCP3) /\ ~c.capabilities.mccp3_enabled
      THEN [conn |-> mccp3_set_enabled(c1), pc |-> "enabling"]
      ELSE parse_loop_to_await(tn_at_telnet_message(c1, r.msg))

MaxReads == 3

\* what one read may return: the activation frame, the frame and a deflated
\* line after it, a deflated DO MCCP2 with the end of the stream and a byte
\* after it, and a line that is not deflated
HandleChunks ==
  {Mccp3Frame,
   Mccp3Frame \o Deflate(<<97, LF>>),
   Deflate(<<IAC, DO, MCCP2>>) \o <<ZEnd, NULL>>,
   <<97, LF>>}

ReaderGoesOn(p) ==
  /\ Becomes(p.conn)
  /\ reader_pc' = p.pc
  /\ reader_local' = << >>

\* a read returns; with mccp3_enabled and no handle the call of decompress
\* raises AttributeError, which _tn_run_reader logs
ReadData ==
  /\ reader_pc = "read"
  /\ nrecv < MaxReads
  /\ nrecv' = nrecv + 1
  /\ \E data \in HandleChunks :
       IF ~capabilities.mccp3_enabled
       THEN ReaderGoesOn(parse_loop_to_await([Conn EXCEPT !.tn_read_buffer = @ \o data]))
       ELSE IF tn_decompress_in = "None"
       THEN /\ dispatched' = << >>
            /\ UNCHANGED <<status, negotiation, number_requests, capabilities,
                           tn_read_buffer, tn_app_data, user_input_queue,
                           tn_out_queue, tn_decompress_in, recent, reader_pc,
                           reader_local>>
       ELSE LET r == Decompress(tn_decompress_in, data)
                c == [Conn EXCEPT !.tn_decompress_in = r.state]
            IN  IF r.error \/ r.unused
                THEN /\ Becomes(mccp3_drop_handle(c))
                     /\ reader_pc' = "ending"
                     /\ reader_local' = IF r.error THEN << >> ELSE r.out
                ELSE ReaderGoesOn(
                       parse_loop_to_await([c EXCEPT !.tn_read_buffer = @ \o r.out]))
  /\ UNCHANGED <<tn_compress_out, tn_writer, negotiation_pc, writer_pc, nsend,
                 app_call, codecVars>>

\* the suspended handler is resumed, and the ingest goes on from there
ReaderResume ==
  /\ reader_pc # "read"
  /\ LET c == IF reader_pc = "enabling" THEN mccp3_assign_handle(Conn)
              ELSE [mccp3_clear_enabled(Conn) EXCEPT
                      !.tn_read_buffer = @ \o reader_local]
     IN  ReaderGoesOn(parse_loop_to_await(c))
  /\ UNCHANGED <<tn_compress_out, tn_writer, negotiation_pc, writer_pc, nrecv,
                 nsend, app_call, codecVars>>

\* one item encoded and written; with mccp2_enabled and no handle the call
\* of compress raises AttributeError, which ends _tn_run_writer
WriteItem ==
  /\ writer_pc = "run"
  /\ tn_out_queue # << >>
  /\ LET data == Head(tn_out_queue)
         mccp2_enabled == capabilities.mccp2_enabled
     IN  /\ tn_out_queue' = Tail(tn_out_queue)
         /\ IF (data.type = "bytes" /\ data.data = << >>)
               \/ (mccp2_enabled /\ tn_compress_out = "None")
            THEN /\ writer_pc' = "done"
                 /\ UNCHANGED <<capabilities, tn_writer>>
            ELSE /\ tn_writer' = tn_writer \o tn_encode_outgoing_data(mccp2_enabled, data)
                 /\ IF IsSubNegotiateOf(data, MCCP2) /\ ~mccp2_enabled
                    THEN /\ capabilities' = [capabilities EXCEPT !.mccp2_enabled = TRUE]
                         /\ writer_pc' = "hook"
                    ELSE UNCHANGED <<capabilities, writer_pc>>
  /\ UNCHANGED <<status, negotiation, number_requests, tn_read_buffer,
                 tn_app_data, user_input_queue, tn_compress_out,
                 tn_decompress_in, negotiation_pc, reader_pc, reader_local,
                 recent, dispatched, nrecv, nsend, app_call, codecVars>>

WriterResume ==
  /\ writer_pc = "hook"
  /\ tn_compress_out' = "open"
  /\ writer_pc' = "run"
  /\ UNCHANGED <<status, negotiation, number_requests, capabilities,
                 tn_read_buffer, tn_app_data, user_input_queue, tn_out_queue,
                 tn_decompress_in, tn_writer, negotiation_pc, reader_pc,
                 reader_local, recent, dispatched, nrecv, nsend, app_call,
                 codecVars>>

NextHandles ==
  StartOptions \/ ReadData \/ ReaderResume \/ WriteItem \/ WriterResume

SpecHandles == Init /\ [][NextHandles]_vars

\* C26: whenever the writer is about to encode an item with mccp2_enabled
\* set, the deflate handle is there, and whenever an ingest can start with
\* mccp3_enabled set, the inflate handle is there, in every interleaving of
\* the three tasks and their suspensions.
C26_HandlesPresent ==
  /\ (writer_pc = "run" /\ capabilities.mccp2_enabled) => tn_compress_out # "None"
  /\ (reader_pc = "read" /\ capabilities.mccp3_enabled) => tn_decompress_in # "None"

\* MCCP3 was ended by the end of the stream and activated again (the DO for
\* MCCP2 came deflated, with the end of the stream), and the writer has
\* written a deflated item
C26_Witness ==
  /\ nrecv = MaxReads
  /\ reader_pc = "read"
  /\ capabilities.mccp3_enabled /\ tn_decompress_in = "open"
  /\ writer_pc = "run"
  /\ capabilities.mccp2_enabled /\ tn_compress_out = "open"
  /\ tn_writer # << >> /\ tn_writer[Len(tn_writer)] > IAC

\* C25: the dispatch of a WONT or a DONT, for any option, enqueues nothing;
\* the dispatch of a WILL or a DO enqueues at most one Negotiate, and for
\* no option but the one it names.
C25_NoAnswerToRefusal ==
  \A e \in Entries :
    /\ (IsNegotiate(e, WONT) \/ IsNegotiate(e, DONT)) => e.sent = << >>
    /\ (IsNegotiate(e, WILL) \/ IsNegotiate(e, DO)) =>
         /\ Cardinality({i \in 1..Len(e.sent) : e.sent[i].type = "Negotiate"}) <= 1
         /\ \A i \in 1..Len(e.sent) :
              e.sent[i].type = "Negotiate" => e.sent[i].option = e.msg.option

\* a WONT for NAWS that turned its enabled remote half off and was not
\* answered
C25_Witness ==
  \E e \in Entries :
    /\ IsNegotiate(e, WONT) /\ e.msg.option = NAWS
    /\ Remote(e.pre, e).enabled /\ ~Remote(e.post, e).enabled
    /\ e.sent = << >>

====
